---- MODULE Spec2Model ----
(***************************************************************************)
(* A model of src/stock_analyzer.py: the five-stage guided stock analysis  *)
(* (a Streamlit page that is re-run from top to bottom on every user       *)
(* interaction), its JSON file store, and the list / resume / delete /     *)
(* export pages.                                                           *)
(*                                                                         *)
(* Text the code compares, concatenates or sorts (ticker, company name,    *)
(* date, file name, display label) is a sequence of one-character strings. *)
(* Dictionary keys and fixed option values are TLA+ strings.  A Python     *)
(* dict is a function whose DOMAIN is its key set; {} is EmptyDict.        *)
(* Tickers are taken from texts that are valid file-name components.       *)
(*                                                                         *)
(* Spec is the guided analysis (stage edits, the save buttons, reset,      *)
(* resume) over one file; SpecStore is the file store with several         *)
(* tickers and dates (list, resume, delete, export); SpecJson runs         *)
(* save_analysis and load_analysis on the JSON text of a record;           *)
(* SpecFlatten runs flatten_dict on nested records; SpecVerdict fills in    *)
(* one stage of a fresh analysis with every input of that stage and saves  *)
(* it; SpecForeign runs list_analyses and export_all_to_csv on a DATA_DIR  *)
(* holding files other programs wrote.                                     *)
(*                                                                         *)
(* The second part models src/app.py, the portfolio dashboard:             *)
(* SpecPositions aggregates a trade-history CSV into positions, SpecQuotes *)
(* joins the provider's quotes to them, SpecRisk computes the weights and  *)
(* the portfolio beta, SpecColor classifies a day-over-day return, and     *)
(* SpecDashboard is the session with its buttons (hide / show a ticker,    *)
(* show all, currency) and cash inputs.                                    *)
(***************************************************************************)
EXTENDS Integers, Sequences, FiniteSets, TLC

VARIABLES
    analysis,   \* st.session_state.analysis, the record being edited
    store,      \* DATA_DIR: file path -> file (content and modification time)
    menu,       \* the sidebar radio: which page the script renders
    clock,      \* number of file writes so far; the next write's mtime
    lastOp,     \* the interaction handled by the last script run
    live,       \* history: <<ticker, date>> -> the record last saved under that
                \* pair and not deleted since
    doc,        \* the argument of the function under test (pure-function runs);
                \* in the dashboard, what the script reads: CSV, quotes, cash
    out,        \* what the function under test returned; in the dashboard,
                \* what the last script run displayed
    hidden_tickers,   \* st.session_state.hidden_tickers of src/app.py
    show_yen,         \* st.session_state.show_yen of src/app.py
    clicks      \* history: the dashboard's button clicks counted so far

\* The session state of the dashboard (src/app.py) and its click history.
dashboard == <<hidden_tickers, show_yen, clicks>>

vars == <<analysis, store, menu, clock, lastOp, live, doc, out, dashboard>>

\* ---------------------------------------------------------------- bounds
MaxWrites == 3

\* Rows of the trade-history CSV.
MaxTrades == 3

\* Clicks counted per button of the dashboard (since the last "show all"
\* for the per-ticker buttons).
MaxClicks == 3

\* The largest day-over-day return handed to the heatmap, in thousandths.
MaxRate == 60

\* The number of daily returns of a price history.
MaxDays == 2

\* ------------------------------------------------------------------ text
EmptyDict == [k \in {} |-> k]

Get(d, k, default) == IF k \in DOMAIN d THEN d[k] ELSE default

Max(a, b) == IF a >= b THEN a ELSE b

\* Code point of a character (ASCII).
Ord(c) ==
    CASE c = " " -> 32 [] c = "(" -> 40 [] c = ")" -> 41 [] c = "-" -> 45
      [] c = "." -> 46 [] c = "0" -> 48 [] c = "1" -> 49 [] c = "2" -> 50
      [] c = "3" -> 51 [] c = "4" -> 52 [] c = "5" -> 53 [] c = "6" -> 54
      [] c = "7" -> 55 [] c = "8" -> 56 [] c = "9" -> 57 [] c = "?" -> 63
      [] c = "A" -> 65 [] c = "B" -> 66 [] c = "C" -> 67 [] c = "_" -> 95
      [] c = "a" -> 97 [] c = "b" -> 98 [] c = "j" -> 106 [] c = "n" -> 110
      [] c = "o" -> 111 [] c = "s" -> 115

Digit(n) ==
    CASE n = 0 -> "0" [] n = 1 -> "1" [] n = 2 -> "2" [] n = 3 -> "3"
      [] n = 4 -> "4" [] n = 5 -> "5" [] n = 6 -> "6" [] n = 7 -> "7"
      [] n = 8 -> "8" [] n = 9 -> "9"

\* str.upper()
UpperChar(c) == CASE c = "a" -> "A" [] c = "b" -> "B" [] OTHER -> c

Upper(s) == [i \in 1..Len(s) |-> UpperChar(s[i])]

\* Python's str "<": lexicographic by code point, a proper prefix first.
RECURSIVE StrLess(_, _)
StrLess(a, b) ==
    IF b = <<>> THEN FALSE
    ELSE IF a = <<>> THEN TRUE
    ELSE IF Head(a) = Head(b) THEN StrLess(Tail(a), Tail(b))
    ELSE Ord(Head(a)) < Ord(Head(b))

\* ----------------------------------------------------------------- dates
\* A date is a day of January 2024, written as its day number.
Today == 1

\* date.strftime("%Y-%m-%d")
strftime(day) ==
    <<"2", "0", "2", "4", "-", "0", "1", "-", Digit(day \div 10), Digit(day % 10)>>

\* datetime.strptime(s, "%Y-%m-%d")
strptime(s) == (Ord(s[9]) - 48) * 10 + (Ord(s[10]) - 48)

\* ------------------------------------------------------- the stage forms
\* The Japanese result strings of the code are written in ASCII:
\*   "未完了" -> "incomplete", "完了" -> "complete", "優良" -> "excellent",
\*   "標準" -> "standard", "見送り" -> "skip".
Incomplete == "incomplete"

Complete == "complete"

\* Each Stage<k>(s) is the stage dict after one run of that tab: every widget
\* returns the value the dict holds (its default when the key is missing),
\* and the derived fields are recomputed.  The stage dicts keep the fields
\* some condition of the code reads; the free-text and numeric inputs that
\* are only stored are left out here and appear in the records of SpecJson.

nogo_items == {"deficit_3years", "stock_drop_70", "management_scandal",
               "unclear_business", "speculative"}

go_items == {"explainable", "future_need", "financial_ok"}

\* Checkbox group: s[name][key] = st.checkbox(value=s[name].get(key, False))
Checkboxes(s, name, keys) ==
    LET old == Get(s, name, EmptyDict)
    IN  [k \in keys |-> Get(old, k, FALSE)]

\* Mutant of stage1_result: the GO conditions are tested first.
stage1_result_GoFirst(nogo_flags, go_flags) ==
    LET has_nogo == \E k \in DOMAIN nogo_flags : nogo_flags[k]
        all_go   == \A k \in DOMAIN go_flags : go_flags[k]
    IN  IF all_go THEN "GO"
        ELSE IF has_nogo THEN "NO GO"
        ELSE Incomplete

stage1_result(nogo_flags, go_flags) ==
    LET has_nogo == \E k \in DOMAIN nogo_flags : nogo_flags[k]
        all_go   == \A k \in DOMAIN go_flags : go_flags[k]
    IN  IF ~has_nogo /\ all_go THEN "GO"
        ELSE IF has_nogo THEN "NO GO"
        ELSE Incomplete

Stage1(s) ==
    LET nogo == Checkboxes(s, "nogo_flags", nogo_items)
        go   == Checkboxes(s, "go_flags", go_items)
    IN  [nogo_flags |-> nogo, go_flags |-> go,
         result |-> stage1_result(nogo, go)]

score_items == {"growth_score", "profit_score", "balance_score", "cf_score",
                "valuation_score"}

RECURSIVE SumOver(_, _)
SumOver(f, keys) ==
    IF keys = {} THEN 0
    ELSE LET k == CHOOSE x \in keys : TRUE
         IN  f[k] + SumOver(f, keys \ {k})

\* Mutant of stage2_result: the edges 8 and 5 fall in the lower band.
stage2_result_Above(total) ==
    IF total > 8 THEN "excellent"
    ELSE IF total > 5 THEN "standard"
    ELSE "skip"

stage2_result(total) ==
    IF total >= 8 THEN "excellent"
    ELSE IF total >= 5 THEN "standard"
    ELSE "skip"

Stage2(s) ==
    LET scores == [k \in score_items |-> Get(s, k, 1)]
        total  == SumOver(scores, score_items)
    IN  scores @@ [total_score |-> total, result |-> stage2_result(total)]

devil_items == {"devil_q1_1", "devil_q1_2", "devil_q1_3", "devil_q2_1",
                "devil_q2_2", "devil_q3_1", "devil_q3_2"}

moat_items == {"network_effect", "brand", "cost_advantage",
               "regulatory_barrier", "switching_cost", "patent_tech"}

bias_items == {"bias_certain", "bias_sunk_cost", "bias_past_loss", "bias_calm"}

\* Mutant of devil_complete: the last answer is not looked at.
devil_complete_SixOnly(s) ==
    \A k \in devil_items \ {"devil_q3_2"} : Get(s, k, "") # ""

\* all([s3.get(k) for the seven answers]): a text is true unless it is "".
devil_complete(s) == \A k \in devil_items : Get(s, k, "") # ""

Stage3(s) ==
    LET moat    == Checkboxes(s, "moat", moat_items)
        answers == [k \in devil_items |-> Get(s, k, "")]
        bias    == Checkboxes(s, "bias_flags", bias_items)
    IN  answers @@
        [moat |-> moat, moat_other |-> Get(s, "moat_other", ""),
         bias_flags |-> bias,
         result |-> IF devil_complete(answers) THEN Complete ELSE Incomplete]

prohibitions == {"no_price_check", "no_positive_info", "no_social_media"}

todos == {"compare_others", "review_portfolio", "reflect_emotions"}

\* Mutant of cooling_ok: a review on the same day passes.
cooling_ok_SameDay(comp, rev) ==
    LET hours_diff == (strptime(rev) - strptime(comp)) * 24
    IN  ~(hours_diff < 0)

cooling_ok(comp, rev) ==
    LET hours_diff == (strptime(rev) - strptime(comp)) * 24
    IN  ~(hours_diff < 24)

Stage4(s) ==
    LET analysis_date_val == Get(s, "analysis_complete_date", <<>>)
        default_date == IF analysis_date_val # <<>> THEN strptime(analysis_date_val)
                        ELSE Today
        review_date_val == Get(s, "review_date", <<>>)
        review_default == IF review_date_val # <<>> THEN strptime(review_date_val)
                          ELSE default_date + 1
        comp == strftime(default_date)
        rev  == strftime(review_default)
        proh == Checkboxes(s, "prohibitions", prohibitions)
        todo == Checkboxes(s, "todos", todos)
        ok   == cooling_ok(comp, rev)
        done == ok /\ (\A k \in prohibitions : proh[k]) /\ (\A k \in todos : todo[k])
    IN  [analysis_complete_date |-> comp, review_date |-> rev, cooling_ok |-> ok,
         prohibitions |-> proh, todos |-> todo,
         result |-> IF done THEN Complete ELSE Incomplete]

\* The conviction levels "低", "普通", "高", "最高" are written "low",
\* "normal", "high", "highest", and the size "投資禁止" is written "forbidden".
conviction_to_size ==
    [low |-> "1-3%", normal |-> "3-5%", high |-> "5-8%", highest |-> "forbidden"]

\* The conviction slider and the position size are shown, and their keys
\* written, only while the decision is "invest"; otherwise the dict keeps
\* what it held.
Stage5(s) ==
    LET decision == Get(s, "decision", "pass")
        kept == [k \in DOMAIN s \cap {"conviction", "position_size"} |-> s[k]]
        conviction == Get(s, "conviction", "normal")
        recommended_size == conviction_to_size[conviction]
    IN  IF decision = "invest"
        THEN [decision |-> decision, conviction |-> conviction,
              position_size |-> Get(s, "position_size", recommended_size)]
        ELSE [decision |-> decision] @@ kept

\* ------------------------------------------------------------ the record
init_analysis_data ==
    [company_name |-> <<>>, ticker |-> <<>>, date |-> strftime(Today),
     current_stage |-> 1,
     stage1 |-> EmptyDict, stage2 |-> EmptyDict, stage3 |-> EmptyDict,
     stage4 |-> EmptyDict, stage5 |-> EmptyDict]

\* The record after the header and the tabs of stages 1..k have run.
RenderTo(data, k) ==
    [company_name  |-> Get(data, "company_name", <<>>),
     ticker        |-> Upper(Get(data, "ticker", <<>>)),
     date          |-> strftime(strptime(data.date)),
     current_stage |-> Get(data, "current_stage", 1),
     stage1 |-> IF k >= 1 THEN Stage1(Get(data, "stage1", EmptyDict)) ELSE data.stage1,
     stage2 |-> IF k >= 2 THEN Stage2(Get(data, "stage2", EmptyDict)) ELSE data.stage2,
     stage3 |-> IF k >= 3 THEN Stage3(Get(data, "stage3", EmptyDict)) ELSE data.stage3,
     stage4 |-> IF k >= 4 THEN Stage4(Get(data, "stage4", EmptyDict)) ELSE data.stage4,
     stage5 |-> IF k >= 5 THEN Stage5(Get(data, "stage5", EmptyDict)) ELSE data.stage5]

\* One complete run of the "新規分析" page with no button pressed.
Render(data) == RenderTo(data, 5)

\* --------------------------------------------------------- nested values
\* A JSON value as Python holds it: a scalar tagged with its type ("int",
\* "float" with its value in tenths, "bool", "str" for a TLA+ string, "text"
\* for a character sequence), a dict (its <<key, value>> pairs in insertion
\* order) or a list.
Num(x) == [t |-> "int", v |-> x]

Float(tenths) == [t |-> "float", v |-> tenths]

Boolean(x) == [t |-> "bool", v |-> x]

Str(x) == [t |-> "str", v |-> x]

Text(x) == [t |-> "text", v |-> x]

DictNode(pairs) == [t |-> "dict", v |-> pairs]

ListNode(items) == [t |-> "list", v |-> items]

\* flatten_dict(d, parent_key, sep = "."): flat key -> value.  Later
\* assignments to the same flat key replace earlier ones.
RECURSIVE flatten_dict(_, _), FlattenPairs(_, _), FlattenList(_, _, _)
flatten_dict(d, parent_key) == FlattenPairs(d.v, parent_key)

FlattenPairs(pairs, parent_key) ==
    IF pairs = <<>> THEN EmptyDict
    ELSE LET k == pairs[1][1]
             v == pairs[1][2]
             new_key == IF parent_key # "" THEN parent_key \o "." \o k ELSE k
             items == CASE v.t = "dict" -> flatten_dict(v, new_key)
                        [] v.t = "list" -> FlattenList(v.v, new_key, 0)
                        [] OTHER -> (new_key :> v)
         IN  FlattenPairs(Tail(pairs), parent_key) @@ items

FlattenList(list, new_key, i) ==
    IF list = <<>> THEN EmptyDict
    ELSE LET item == Head(list)
             key == new_key \o "[" \o Digit(i) \o "]"
             items == IF item.t = "dict" THEN flatten_dict(item, key)
                      ELSE (key :> item)
         IN  FlattenList(Tail(list), new_key, i + 1) @@ items

\* ------------------------------------------------------------------ JSON
\* The text of a JSON document as its sequence of tokens (white space and
\* indentation carry no information).  A number token carries its digits, a
\* "text" token the escaped characters between the quotes; a "str" token is
\* a quoted key or fixed option string, which holds nothing to escape.
Tok(name) == [tok |-> name]

ValTok(name, x) == [tok |-> name, v |-> x]

Abs(n) == IF n < 0 THEN 0 - n ELSE n

\* int.__repr__ and float.__repr__
RECURSIVE NatText(_)
NatText(n) == IF n < 10 THEN <<Digit(n)>> ELSE NatText(n \div 10) \o <<Digit(n % 10)>>

IntText(n) == (IF n < 0 THEN <<"-">> ELSE <<>>) \o NatText(Abs(n))

FloatText(tenths) ==
    (IF tenths < 0 THEN <<"-">> ELSE <<>>)
        \o NatText(Abs(tenths) \div 10) \o <<".", Digit(Abs(tenths) % 10)>>

\* Mutant of Escape: the characters are written as they are.
Escape_Raw(s) == s

\* The JSON string encoder (ensure_ascii=False): quote, backslash and line
\* feed are escaped, every other character is written as it is.
RECURSIVE Escape(_)
Escape(s) ==
    IF s = <<>> THEN <<>>
    ELSE (CASE Head(s) = "\"" -> <<"\\", "\"">>
            [] Head(s) = "\\" -> <<"\\", "\\">>
            [] Head(s) = "\n" -> <<"\\", "n">>
            [] OTHER -> <<Head(s)>>) \o Escape(Tail(s))

\* json.dump(data, f, ensure_ascii=False, indent=2)
RECURSIVE json_dump(_), DumpPairs(_), DumpItems(_)
json_dump(node) ==
    CASE node.t = "dict"  -> <<Tok("{")>> \o DumpPairs(node.v) \o <<Tok("}")>>
      [] node.t = "list"  -> <<Tok("[")>> \o DumpItems(node.v) \o <<Tok("]")>>
      [] node.t = "bool"  -> <<Tok(IF node.v THEN "true" ELSE "false")>>
      [] node.t = "int"   -> <<ValTok("number", IntText(node.v))>>
      [] node.t = "float" -> <<ValTok("number", FloatText(node.v))>>
      [] node.t = "str"   -> <<ValTok("str", node.v)>>
      [] node.t = "text"  -> <<ValTok("text", Escape(node.v))>>

DumpPairs(pairs) ==
    IF pairs = <<>> THEN <<>>
    ELSE <<ValTok("str", pairs[1][1]), Tok(":")>> \o json_dump(pairs[1][2])
         \o (IF Len(pairs) > 1 THEN <<Tok(",")>> \o DumpPairs(Tail(pairs)) ELSE <<>>)

DumpItems(items) ==
    IF items = <<>> THEN <<>>
    ELSE json_dump(items[1])
         \o (IF Len(items) > 1 THEN <<Tok(",")>> \o DumpItems(Tail(items)) ELSE <<>>)

\* The JSON scanner's number and string conversions.
RECURSIVE TextNat(_)
TextNat(s) ==
    IF s = <<>> THEN 0
    ELSE TextNat(SubSeq(s, 1, Len(s) - 1)) * 10 + (Ord(s[Len(s)]) - 48)

ParseNumber(s) ==
    LET neg  == s[1] = "-"
        body == IF neg THEN Tail(s) ELSE s
        sign == IF neg THEN 0 - 1 ELSE 1
        dots == {i \in 1..Len(body) : body[i] = "."}
    IN  IF dots = {} THEN Num(sign * TextNat(body))
        ELSE LET d == CHOOSE i \in dots : TRUE
             IN  Float(sign * (TextNat(SubSeq(body, 1, d - 1)) * 10
                               + TextNat(SubSeq(body, d + 1, Len(body)))))

RECURSIVE Unescape(_)
Unescape(s) ==
    IF s = <<>> THEN <<>>
    ELSE IF Head(s) = "\\" /\ Len(s) >= 2
         THEN <<IF s[2] = "n" THEN "\n" ELSE s[2]>> \o Unescape(SubSeq(s, 3, Len(s)))
         ELSE <<Head(s)>> \o Unescape(Tail(s))

\* json.load: a recursive-descent parse.  A parse step returns the value and
\* the position after it, or Failed (json.JSONDecodeError).
Failed == [ok |-> FALSE]

Parsed(node, next) == [ok |-> TRUE, v |-> node, n |-> next]

RECURSIVE ParseValue(_, _), ParseMembers(_, _, _), ParseElements(_, _, _)
ParseValue(ts, i) ==
    IF i > Len(ts) THEN Failed
    ELSE LET tk == ts[i].tok
         IN  CASE tk = "{" ->
                     IF i < Len(ts) /\ ts[i + 1].tok = "}"
                     THEN Parsed(DictNode(<<>>), i + 2)
                     ELSE ParseMembers(ts, i + 1, <<>>)
               [] tk = "[" ->
                     IF i < Len(ts) /\ ts[i + 1].tok = "]"
                     THEN Parsed(ListNode(<<>>), i + 2)
                     ELSE ParseElements(ts, i + 1, <<>>)
               [] tk = "true"  -> Parsed(Boolean(TRUE), i + 1)
               [] tk = "false" -> Parsed(Boolean(FALSE), i + 1)
               [] tk = "number" -> Parsed(ParseNumber(ts[i].v), i + 1)
               [] tk = "str"   -> Parsed(Str(ts[i].v), i + 1)
               [] tk = "text"  -> Parsed(Text(Unescape(ts[i].v)), i + 1)
               [] OTHER -> Failed

ParseMembers(ts, i, acc) ==
    IF i + 1 > Len(ts) \/ ts[i].tok # "str" \/ ts[i + 1].tok # ":" THEN Failed
    ELSE LET r == ParseValue(ts, i + 2)
         IN  IF ~r.ok \/ r.n > Len(ts) THEN Failed
             ELSE LET acc2 == Append(acc, <<ts[i].v, r.v>>)
                  IN  IF ts[r.n].tok = "," THEN ParseMembers(ts, r.n + 1, acc2)
                      ELSE IF ts[r.n].tok = "}" THEN Parsed(DictNode(acc2), r.n + 1)
                      ELSE Failed

ParseElements(ts, i, acc) ==
    LET r == ParseValue(ts, i)
    IN  IF ~r.ok \/ r.n > Len(ts) THEN Failed
        ELSE LET acc2 == Append(acc, r.v)
             IN  IF ts[r.n].tok = "," THEN ParseElements(ts, r.n + 1, acc2)
                 ELSE IF ts[r.n].tok = "]" THEN Parsed(ListNode(acc2), r.n + 1)
                 ELSE Failed

\* The whole text must be one value.
json_load(ts) ==
    LET r == ParseValue(ts, 1)
    IN  IF r.ok /\ r.n = Len(ts) + 1 THEN r ELSE Failed

\* The keys of the analysis record and of its dicts in the order the page
\* inserts them, and the type of the value each key holds.
RecordKeys ==
    <<"company_name", "ticker", "date", "current_stage",
      "stage1", "stage2", "stage3", "stage4", "stage5">>

KeysOf(k) ==
    CASE k = "stage1" -> <<"nogo_flags", "go_flags", "result">>
      [] k = "nogo_flags" ->
            <<"deficit_3years", "stock_drop_70", "management_scandal",
              "unclear_business", "speculative">>
      [] k = "go_flags" -> <<"explainable", "future_need", "financial_ok">>
      [] k = "stage2" ->
            <<"growth_score", "profit_score", "balance_score", "cf_score",
              "valuation_score", "total_score", "result">>
      [] k = "stage3" ->
            <<"moat", "moat_other",
              "devil_q1_1", "devil_q1_2", "devil_q1_3", "devil_q2_1",
              "devil_q2_2", "devil_q3_1", "devil_q3_2", "bias_flags", "result">>
      [] k = "moat" ->
            <<"network_effect", "brand", "cost_advantage",
              "regulatory_barrier", "switching_cost", "patent_tech">>
      [] k = "bias_flags" ->
            <<"bias_certain", "bias_sunk_cost", "bias_past_loss", "bias_calm">>
      [] k = "stage4" ->
            <<"analysis_complete_date", "review_date", "cooling_ok",
              "prohibitions", "todos", "result">>
      [] k = "prohibitions" ->
            <<"no_price_check", "no_positive_info", "no_social_media">>
      [] k = "todos" -> <<"compare_others", "review_portfolio", "reflect_emotions">>
      [] k = "stage5" -> <<"decision", "conviction", "position_size">>

DictKeys == {"stage1", "stage2", "stage3", "stage4", "stage5",
             "nogo_flags", "go_flags", "moat", "bias_flags",
             "prohibitions", "todos"}

TextKeys == {"company_name", "ticker", "date", "analysis_complete_date", "review_date"}

IntKeys == score_items \cup {"current_stage", "total_score"}

StrKeys == devil_items \cup {"moat_other", "result", "decision", "conviction",
                              "position_size"}

\* A dict of the analysis record as a nested value, its keys in order.
RECURSIVE ToTreeIn(_, _)
ToTreeIn(d, order) ==
    LET keys == SelectSeq(order, LAMBDA k : k \in DOMAIN d)
        Node(k) == IF k \in DictKeys THEN ToTreeIn(d[k], KeysOf(k))
                   ELSE IF k \in TextKeys THEN Text(d[k])
                   ELSE IF k \in IntKeys THEN Num(d[k])
                   ELSE IF k \in StrKeys THEN Str(d[k])
                   ELSE Boolean(d[k])
    IN  DictNode([i \in 1..Len(keys) |-> <<keys[i], Node(keys[i])>>])

\* The analysis record as a nested value.
ToTree(d) == ToTreeIn(d, RecordKeys)

\* ------------------------------------------------------------- the store
\* A file of DATA_DIR and its modification time.  In Spec and SpecStore the
\* content of a file is the JSON value its text denotes (NotJson when the
\* text is no JSON document); in SpecJson it is the text itself, written by
\* json_dump and read by json_load.
File(content, t) == [content |-> content, mtime |-> t]

NotJson == [t |-> "garbage"]

\* A foreign file that json.load cannot parse.
GarbageFile == File(NotJson, 0)

\* Mutant of get_analysis_filepath: the date is left out of the file name.
get_analysis_filepath_NoDate(ticker, date_str) ==
    ticker \o <<".", "j", "s", "o", "n">>

\* File name inside DATA_DIR (the directory prefix is the same for all).
get_analysis_filepath(ticker, date_str) ==
    ticker \o <<"_">> \o date_str \o <<".", "j", "s", "o", "n">>

\* dict.get on a nested value: the value node under key k, or default.
RECURSIVE TreeGet(_, _, _)
TreeGet(pairs, k, default) ==
    IF pairs = <<>> THEN default
    ELSE IF pairs[Len(pairs)][1] = k THEN pairs[Len(pairs)][2]
    ELSE TreeGet(SubSeq(pairs, 1, Len(pairs) - 1), k, default)

\* The file save_analysis writes a record to on day now.
PathOfDoc(tree, now) ==
    LET ticker   == TreeGet(tree.v, "ticker", Text(<<"U", "N", "K", "N", "O", "W", "N">>)).v
        date_str == TreeGet(tree.v, "date", Text(strftime(now))).v
    IN  get_analysis_filepath(ticker, date_str)

\* Mutant of WriteFile: the write leaves no other file in the directory.
WriteFile_Alone(files, fp, content, t) == (fp :> File(content, t))

\* open(filepath, "w") and the write: the directory afterwards.
WriteFile(files, fp, content, t) == (fp :> File(content, t)) @@ files

\* save_analysis on the nested value of a record, at write number t on day
\* now: the file holds the value.
SaveDoc(files, tree, now, t) == WriteFile(files, PathOfDoc(tree, now), tree, t)

\* save_analysis, the file holding the text json.dump writes.
SaveText(files, tree, now, t) ==
    WriteFile(files, PathOfDoc(tree, now), json_dump(tree), t)

\* load_analysis on a file holding text: json.load's result.
LoadText(files, fp) == json_load(files[fp].content)

save_analysis(files, data, t) == SaveDoc(files, ToTree(data), Today, t)

\* load_analysis raises on a file that is no JSON document.
Loads(files, fp) == files[fp].content # NotJson

LoadDoc(files, fp) == files[fp].content

\* The Python value of a nested value: a dict as a function of its keys
\* (the last pair of a key is the one that counts).
RECURSIVE FromTree(_), FromPairs(_)
FromTree(node) ==
    CASE node.t = "dict" -> FromPairs(node.v)
      [] node.t = "list" -> [i \in 1..Len(node.v) |-> FromTree(node.v[i])]
      [] OTHER -> node.v

FromPairs(pairs) ==
    IF pairs = <<>> THEN EmptyDict
    ELSE LET n == Len(pairs)
         IN  (pairs[n][1] :> FromTree(pairs[n][2])) @@ FromPairs(SubSeq(pairs, 1, n - 1))

load_analysis(files, fp) == FromTree(LoadDoc(files, fp))

\* --------------------------------------------------------------- listing
\* sorted(paths): ascending by Python's string order.
RECURSIVE Sorted(_)
Sorted(S) ==
    IF S = {} THEN <<>>
    ELSE LET m == CHOOSE x \in S : \A y \in S \ {x} : StrLess(x, y)
         IN  <<m>> \o Sorted(S \ {m})

Reverse(q) == [i \in 1..Len(q) |-> q[Len(q) + 1 - i]]

ListEntry(fp, data) ==
    [filepath        |-> fp,
     ticker          |-> Get(data, "ticker", <<"?">>),
     company         |-> Get(data, "company_name", <<"?">>),
     date            |-> Get(data, "date", <<"?">>),
     current_stage   |-> Get(data, "current_stage", 1),
     stage1_result   |-> Get(Get(data, "stage1", EmptyDict), "result", Incomplete),
     stage2_score    |-> Get(Get(data, "stage2", EmptyDict), "total_score", "-"),
     stage5_decision |-> Get(Get(data, "stage5", EmptyDict), "decision", Incomplete)]

\* The try block of list_analyses passes: the file loads, the value is a
\* dict (data.get exists) and so are its "stage1", "stage2" and "stage5"
\* members when present (their .get is called).
Listable(files, fp) ==
    /\ Loads(files, fp)
    /\ LoadDoc(files, fp).t = "dict"
    /\ \A k \in {"stage1", "stage2", "stage5"} :
          TreeGet(LoadDoc(files, fp).v, k, DictNode(<<>>)).t = "dict"

\* The loop over the files: an entry for each file the try block passes on.
RECURSIVE ListEntries(_, _)
ListEntries(fps, files) ==
    IF fps = <<>> THEN <<>>
    ELSE (IF Listable(files, Head(fps))
          THEN <<ListEntry(Head(fps), load_analysis(files, Head(fps)))>>
          ELSE <<>>) \o ListEntries(Tail(fps), files)

list_analyses(files) == ListEntries(Reverse(Sorted(DOMAIN files)), files)

\* The select box label of a list entry.
Label(a) ==
    a.ticker \o <<" ", "-", " ">> \o a.company \o <<" ", "(">> \o a.date \o <<")">>

Options(analyses) == [i \in 1..Len(analyses) |-> Label(analyses[i])]

\* list.index(x): the first position holding x.
Index(options, selected) ==
    CHOOSE i \in 1..Len(options) :
        options[i] = selected /\ \A j \in 1..(i - 1) : options[j] # selected

\* The file the list page acts on when the user picks entry number sel.
SelectedPath(analyses, sel) ==
    LET options  == Options(analyses)
        selected == options[sel]
        idx      == Index(options, selected)
    IN  analyses[idx].filepath

\* ---------------------------------------------------------------- export
\* export_all_to_csv: the rows of the table, one flattened record per file
\* that loads, in ascending file order (an empty table when there is none).
\* The try block of export_all_to_csv passes: the file loads and the value
\* is a dict (flatten_dict calls d.items()).
Flattens(files, fp) == Loads(files, fp) /\ LoadDoc(files, fp).t = "dict"

RECURSIVE UntilFirstFailure(_, _)
UntilFirstFailure(fps, files) ==
    IF fps = <<>> \/ ~Flattens(files, Head(fps)) THEN <<>>
    ELSE <<Head(fps)>> \o UntilFirstFailure(Tail(fps), files)

\* Mutant of export_all_to_csv: a file that fails to load ends the loop
\* (break) instead of being skipped (continue).
export_all_to_csv_Break(files) ==
    LET good == UntilFirstFailure(Sorted(DOMAIN files), files)
    IN  [i \in 1..Len(good) |-> flatten_dict(LoadDoc(files, good[i]), "")]

export_all_to_csv(files) ==
    LET fps  == Sorted(DOMAIN files)
        good == SelectSeq(fps, LAMBDA fp : Flattens(files, fp))
    IN  [i \in 1..Len(good) |-> flatten_dict(LoadDoc(files, good[i]), "")]

\* The bulk JSON export of the export page: the listed analyses, reloaded.
export_all_to_json(files) ==
    LET analyses == list_analyses(files)
        good == SelectSeq(analyses, LAMBDA a : Loads(files, a.filepath))
    IN  [i \in 1..Len(good) |-> LoadDoc(files, good[i].filepath)]

\* ------------------------------------------------------------ the inputs
\* What the user may enter.  Every action below takes its input as a
\* parameter; the specifications draw the parameters from these sets.
Flags(keys, ticked) == [k \in keys |-> k \in ticked]

Stage1Inputs ==
    {<<Flags(nogo_items, {}), Flags(go_items, go_items)>>,
     <<Flags(nogo_items, {"deficit_3years"}), Flags(go_items, go_items)>>,
     <<Flags(nogo_items, {}), Flags(go_items, {"explainable", "future_need"})>>}

Scores(g, p, b, c, v) ==
    [growth_score |-> g, profit_score |-> p, balance_score |-> b,
     cf_score |-> c, valuation_score |-> v]

Stage2Inputs == {Scores(1, 1, 1, 1, 1), Scores(0, 1, 1, 1, 1)}

Answers(filled) == [k \in devil_items |-> IF k \in filled THEN "x" ELSE ""]

Stage3Inputs == {Answers(devil_items)}

Stage4Inputs ==
    {<<1, 2, prohibitions, todos>>, <<1, 1, prohibitions, todos>>}

TextA == <<"a">>

TextAB == <<"a", " ", "-", " ", "b">>

TextC == <<"C">>

TextBC == <<"B", " ", "-", " ", "C">>

\* <<company name, ticker as typed, analysis day>>
HeaderInputs == {<<TextBC, TextA, 1>>, <<TextC, TextAB, 1>>, <<TextC, TextA, 2>>}

\* Records handed to save_analysis in SpecJson: the header fields (company
\* names with a quote, a backslash and a line feed), stage dicts that are
\* empty or hold floats, ints, text, booleans and a nested dict, and the
\* record of a freshly rendered page.
Companies == {<<>>, <<"a", "\"", "b">>, <<"\\", "n">>, <<"a", "\n">>}

Stage1Docs ==
    {DictNode(<<>>),
     DictNode(<< <<"market_cap", Float(125)>>, <<"years_listed", Num(30)>>,
                 <<"sector", Text(TextAB)>>,
                 <<"nogo_flags", DictNode(<< <<"deficit_3years", Boolean(FALSE)>>,
                                             <<"speculative", Boolean(TRUE)>> >>)>>,
                 <<"result", Str("NO GO")>> >>)}

Stage2Docs ==
    {DictNode(<<>>)} \cup
    {DictNode(<< <<"revenue_yoy", Float(i[1])>>, <<"growth_score", Num(i[2])>> >>) :
        i \in {<<0, 0>>, <<0 - 5, 1>>, <<1203, 2>>}}

RecordDoc(company, ticker, day, s1, s2) ==
    DictNode(<< <<"company_name", Text(company)>>, <<"ticker", Text(ticker)>>,
                <<"date", Text(strftime(day))>>, <<"current_stage", Num(1)>>,
                <<"stage1", s1>>, <<"stage2", s2>>, <<"stage3", DictNode(<<>>)>>,
                <<"stage4", DictNode(<<>>)>>, <<"stage5", DictNode(<<>>)>> >>)

JsonDocs ==
    {RecordDoc(c, t, d, s1, s2) :
        c \in Companies, t \in {<<>>, <<"A">>}, d \in {1, 12},
        s1 \in Stage1Docs, s2 \in Stage2Docs}
    \cup {ToTree(Render(init_analysis_data))}

\* Nested records handed to flatten_dict in SpecFlatten: dicts and lists up
\* to three levels deep over the keys "a" and "b".
FlatKeys == {"a", "b"}

FlatLeaves == {Num(1), Str("x")}

FlatInner ==
    FlatLeaves \cup {DictNode(<<>>), ListNode(<<>>)}
    \cup {DictNode(<< <<k, v>> >>) : k \in FlatKeys, v \in FlatLeaves}
    \cup {ListNode(<<v>>) : v \in FlatLeaves}
    \cup {ListNode(<<v, w>>) : v \in FlatLeaves, w \in FlatLeaves}

FlatOuter ==
    FlatInner
    \cup {DictNode(<< <<k, v>> >>) : k \in FlatKeys, v \in FlatInner}
    \cup {ListNode(<<v>>) : v \in FlatInner}

FlatDocs ==
    {DictNode(<< <<k, v>> >>) : k \in FlatKeys, v \in FlatOuter}
    \cup {DictNode(<< <<"a", v>>, <<"b", w>> >>) : v \in FlatInner, w \in FlatInner}

\* ----------------------------------------------------------- the actions
\* Every action is one run of the script, started by one user interaction.
PairOf(data) == <<data.ticker, data.date>>

Remember(saved, data) == (PairOf(data) :> data) @@ saved

Forget(saved, data) == [p \in DOMAIN saved \ {PairOf(data)} |-> saved[p]]

Op(name, fp) == [op |-> name, sel |-> fp]

SaveName(k) ==
    CASE k = 1 -> "save1" [] k = 2 -> "save2" [] k = 3 -> "save3"
      [] k = 4 -> "save4" [] k = 5 -> "save5"

\* The sidebar radio is switched to page m.
GoMenu(m) ==
    /\ m # menu
    /\ menu' = m
    /\ analysis' = IF m = "new" THEN Render(analysis) ELSE analysis
    /\ lastOp' = Op("run", <<>>)
    /\ UNCHANGED <<dashboard, store, clock, live, doc, out>>

EditHeader(company, ticker, day) ==
    /\ menu = "new"
    /\ \E d \in {[analysis EXCEPT !.company_name = company,
                                    !.ticker = ticker,
                                    !.date = strftime(day)]} :
          analysis' = Render(d)
    /\ lastOp' = Op("run", <<>>)
    /\ UNCHANGED <<dashboard, store, menu, clock, live, doc, out>>

EditStage1(nogo, go) ==
    /\ menu = "new"
    /\ \E d \in {[analysis EXCEPT !.stage1 =
                       [nogo_flags |-> nogo, go_flags |-> go] @@ @]} :
          analysis' = Render(d)
    /\ lastOp' = Op("run", <<>>)
    /\ UNCHANGED <<dashboard, store, menu, clock, live, doc, out>>

EditStage2(scores) ==
    /\ menu = "new"
    /\ \E d \in {[analysis EXCEPT !.stage2 = scores @@ @]} :
          analysis' = Render(d)
    /\ lastOp' = Op("run", <<>>)
    /\ UNCHANGED <<dashboard, store, menu, clock, live, doc, out>>

EditStage3(answers) ==
    /\ menu = "new"
    /\ \E d \in {[analysis EXCEPT !.stage3 = answers @@ @]} :
          analysis' = Render(d)
    /\ lastOp' = Op("run", <<>>)
    /\ UNCHANGED <<dashboard, store, menu, clock, live, doc, out>>

EditStage4(comp, rev, proh, todo) ==
    /\ menu = "new"
    /\ \E d \in {[analysis EXCEPT !.stage4 =
                       [analysis_complete_date |-> strftime(comp),
                        review_date |-> strftime(rev),
                        prohibitions |-> Flags(prohibitions, proh),
                        todos |-> Flags(todos, todo)] @@ @]} :
          analysis' = Render(d)
    /\ lastOp' = Op("run", <<>>)
    /\ UNCHANGED <<dashboard, store, menu, clock, live, doc, out>>

\* The condition under which the save button of stage k advances the counter.
StageComplete(k, data) ==
    CASE k = 1 -> data.stage1.result = "GO"
      [] k = 2 -> data.stage2.total_score >= 5
      [] k = 3 -> devil_complete(data.stage3)
      [] k = 4 -> Get(data.stage4, "result", Incomplete) = Complete

\* The record written by the save button of stage k (k in 1..4): the button
\* sits at the end of tab k, so the tabs after k have not run yet.
\* Mutant of SavedByStage: the counter advances whether or not stage k is complete.
SavedByStage_Unguarded(k, data) ==
    LET current_stage == Get(data, "current_stage", 1)
        d == RenderTo(data, k)
    IN  [d EXCEPT !.current_stage = Max(current_stage, k + 1)]

\* Mutant of SavedByStage: the counter is set to k + 1 without the max().
SavedByStage_NoMax(k, data) ==
    LET d == RenderTo(data, k)
    IN  IF StageComplete(k, d) THEN [d EXCEPT !.current_stage = k + 1] ELSE d

SavedByStage(k, data) ==
    LET current_stage == Get(data, "current_stage", 1)
        d == RenderTo(data, k)
    IN  IF StageComplete(k, d)
        THEN [d EXCEPT !.current_stage = Max(current_stage, k + 1)]
        ELSE d

SaveStage(k) ==
    /\ menu = "new"
    /\ clock < MaxWrites
    /\ \E d \in {SavedByStage(k, analysis)} :
          /\ store' = save_analysis(store, d, clock + 1)
          /\ analysis' = Render(d)
          /\ live' = Remember(live, d)
    /\ clock' = clock + 1
    /\ lastOp' = Op(SaveName(k), <<>>)
    /\ UNCHANGED <<dashboard, menu, doc, out>>

SavedByStage5(data) == [RenderTo(data, 5) EXCEPT !.current_stage = 5]

SaveStage5 ==
    /\ menu = "new"
    /\ clock < MaxWrites
    /\ \E d \in {SavedByStage5(analysis)} :
          /\ store' = save_analysis(store, d, clock + 1)
          /\ analysis' = d
          /\ live' = Remember(live, d)
    /\ clock' = clock + 1
    /\ lastOp' = Op(SaveName(5), <<>>)
    /\ UNCHANGED <<dashboard, menu, doc, out>>

\* The sidebar's "現在の分析を一括保存".
BulkSave ==
    /\ menu = "new"
    /\ clock < MaxWrites
    /\ \E d \in {Render(analysis)} :
          /\ store' = save_analysis(store, d, clock + 1)
          /\ analysis' = d
          /\ live' = Remember(live, d)
    /\ clock' = clock + 1
    /\ lastOp' = Op("bulk", <<>>)
    /\ UNCHANGED <<dashboard, menu, doc, out>>

\* The sidebar's "新規分析をリセット", then st.rerun().  The header widgets have
\* no key and restart from the new record.  Whether a keyed widget keeps the
\* value it showed depends on how the Streamlit release identifies widgets
\* (by key, or by key and default value): both outcomes are possible.
ResetRecord(data, keep) ==
    IF keep
    THEN [init_analysis_data EXCEPT !.stage1 = data.stage1, !.stage2 = data.stage2,
                                    !.stage3 = data.stage3, !.stage4 = data.stage4,
                                    !.stage5 = data.stage5]
    ELSE init_analysis_data

Reset(keep) ==
    /\ menu = "new"
    /\ \E d \in {ResetRecord(analysis, keep)} : analysis' = Render(d)
    /\ lastOp' = Op("reset", <<>>)
    /\ UNCHANGED <<dashboard, store, menu, clock, live, doc, out>>

\* "この分析を再開" with some entry of the select box chosen (entry number sel).
Resume ==
    /\ menu = "list"
    /\ \E analyses \in {list_analyses(store)} :
          \E sel \in 1..Len(analyses) :
             /\ analysis' = load_analysis(store, SelectedPath(analyses, sel))
             /\ lastOp' = Op("resume", analyses[sel].filepath)
    /\ UNCHANGED <<dashboard, store, menu, clock, live, doc, out>>

\* os.remove(filepath)
Remove(files, fp) == [p \in DOMAIN files \ {fp} |-> files[p]]

\* "この分析を削除" with some entry of the select box chosen (entry number sel).
Delete ==
    /\ menu = "list"
    /\ \E analyses \in {list_analyses(store)} :
          \E sel \in 1..Len(analyses) :
             \E filepath \in {SelectedPath(analyses, sel)} :
                /\ store' = Remove(store, filepath)
                /\ live' = Forget(live, load_analysis(store, filepath))
                /\ lastOp' = Op("delete", analyses[sel].filepath)
    /\ UNCHANGED <<dashboard, analysis, menu, clock, doc, out>>

\* A download button of the export page (shown when the list is not empty).
Download ==
    /\ menu = "export"
    /\ list_analyses(store) # <<>>
    /\ lastOp' = Op("export", <<>>)
    /\ UNCHANGED <<dashboard, analysis, store, menu, clock, live, doc, out>>

\* What the function under test has done so far.
Idle == [op |-> "none"]

\* save_analysis(doc): the record is written as JSON text.
JsonSave ==
    /\ out.op = "none"
    /\ store' = SaveText(store, doc, Today, clock + 1)
    /\ clock' = clock + 1
    /\ out' = [op |-> "saved", fp |-> PathOfDoc(doc, Today)]
    /\ UNCHANGED <<dashboard, analysis, menu, lastOp, live, doc>>

\* load_analysis(filepath) on the file just written.
JsonLoad ==
    /\ out.op = "saved"
    /\ out' = [op |-> "loaded", fp |-> out.fp, data |-> LoadText(store, out.fp)]
    /\ UNCHANGED <<dashboard, analysis, store, menu, clock, lastOp, live, doc>>

\* save_analysis on the record that was loaded.
JsonResave ==
    /\ out.op = "loaded"
    /\ out.data.ok
    /\ store' = SaveText(store, out.data.v, Today, clock + 1)
    /\ clock' = clock + 1
    /\ out' = [op |-> "resaved", fp |-> PathOfDoc(out.data.v, Today), data |-> out.data]
    /\ UNCHANGED <<dashboard, analysis, menu, lastOp, live, doc>>

\* flatten_dict(doc)
Flatten ==
    /\ out.op = "none"
    /\ out' = [op |-> "flat", items |-> flatten_dict(doc, "")]
    /\ UNCHANGED <<dashboard, analysis, store, menu, clock, lastOp, live, doc>>

\* ------------------------------------------------------ specifications
\* The analysis page never touches the dashboard's session state.
NoDashboard ==
    /\ hidden_tickers = {}
    /\ show_yen = FALSE
    /\ clicks = EmptyDict

Init ==
    /\ analysis = Render(init_analysis_data)
    /\ store = EmptyDict
    /\ menu = "new"
    /\ clock = 0
    /\ lastOp = Op("run", <<>>)
    /\ live = EmptyDict
    /\ doc = EmptyDict
    /\ out = Idle
    /\ NoDashboard

\* The guided analysis: stage edits, every save button, reset, resume.
Next ==
    \/ \E m \in {"new", "list"} : GoMenu(m)
    \/ \E i \in Stage1Inputs : EditStage1(i[1], i[2])
    \/ \E i \in Stage2Inputs : EditStage2(i)
    \/ \E i \in Stage3Inputs : EditStage3(i)
    \/ \E i \in Stage4Inputs : EditStage4(i[1], i[2], i[3], i[4])
    \/ \E k \in 1..4 : SaveStage(k)
    \/ SaveStage5
    \/ BulkSave
    \/ \E keep \in BOOLEAN : Reset(keep)
    \/ Resume

Spec == Init /\ [][Next]_vars

\* The file store: several tickers and dates, list, resume, delete, export.
\* DATA_DIR may hold a foreign file when the session starts.
ForeignPath == <<"B", ".", "j", "s", "o", "n">>

InitStore ==
    /\ analysis = Render(init_analysis_data)
    /\ store \in {EmptyDict, ForeignPath :> GarbageFile}
    /\ menu = "new"
    /\ clock = 0
    /\ lastOp = Op("run", <<>>)
    /\ live = EmptyDict
    /\ doc = EmptyDict
    /\ out = Idle
    /\ NoDashboard

NextStore ==
    \/ \E m \in {"new", "list", "export"} : GoMenu(m)
    \/ \E h \in HeaderInputs : EditHeader(h[1], h[2], h[3])
    \/ SaveStage5
    \/ BulkSave
    \/ Resume
    \/ Delete
    \/ Download

SpecStore == InitStore /\ [][NextStore]_vars

\* list_analyses and export_all_to_csv on a DATA_DIR that other programs
\* wrote to: each of three files is missing or holds text that is no JSON, a
\* JSON list, the empty JSON object, an object whose "stage1" is a number,
\* or a record the tool wrote.
ForeignPaths ==
    {<<"A", ".", "j", "s", "o", "n">>, ForeignPath,
     <<"C", ".", "j", "s", "o", "n">>}

ForeignContents ==
    {NotJson,
     ListNode(<<Num(1)>>),
     DictNode(<<>>),
     DictNode(<<<<"ticker", Text(TextA)>>, <<"stage1", Num(1)>>>>),
     ToTree(Render(init_analysis_data))}

ForeignStores ==
    UNION {[S -> {File(c, 0) : c \in ForeignContents}] : S \in SUBSET ForeignPaths}

\* The list page calls list_analyses().
ListForeign ==
    /\ out' = [op |-> "listed", analyses |-> list_analyses(store)]
    /\ UNCHANGED <<dashboard, analysis, store, menu, clock, lastOp, live, doc>>

\* The export page calls export_all_to_csv().
ExportForeign ==
    /\ out' = [op |-> "exported", rows |-> export_all_to_csv(store)]
    /\ UNCHANGED <<dashboard, analysis, store, menu, clock, lastOp, live, doc>>

InitForeign ==
    /\ analysis = Render(init_analysis_data)
    /\ store \in ForeignStores
    /\ menu = "list"
    /\ clock = 0
    /\ lastOp = Op("run", <<>>)
    /\ live = EmptyDict
    /\ doc = EmptyDict
    /\ out = Idle
    /\ NoDashboard

NextForeign == ListForeign \/ ExportForeign

SpecForeign == InitForeign /\ [][NextForeign]_vars

\* save_analysis and load_analysis on the JSON text of a record.
InitJson ==
    /\ analysis = Render(init_analysis_data)
    /\ store = EmptyDict
    /\ menu = "new"
    /\ clock = 0
    /\ lastOp = Op("run", <<>>)
    /\ live = EmptyDict
    /\ doc \in JsonDocs
    /\ out = Idle
    /\ NoDashboard

NextJson == JsonSave \/ JsonLoad \/ JsonResave

SpecJson == InitJson /\ [][NextJson]_vars

\* flatten_dict on a nested record.
InitFlatten ==
    /\ analysis = Render(init_analysis_data)
    /\ store = EmptyDict
    /\ menu = "new"
    /\ clock = 0
    /\ lastOp = Op("run", <<>>)
    /\ live = EmptyDict
    /\ doc \in FlatDocs
    /\ out = Idle
    /\ NoDashboard

NextFlatten == Flatten

SpecFlatten == InitFlatten /\ [][NextFlatten]_vars

\* The seven answers of stage 3: each empty or filled, the first one also a
\* single blank.
AnswerInputs ==
    {a \in [devil_items -> {"", " ", "x"}] :
        \A k \in devil_items \ {"devil_q1_1"} : a[k] # " "}

\* The verdicts of the stages on every input: the user fills in one stage
\* of a fresh analysis (any of the 2^8 assignments of the stage 1 boxes,
\* any of the 3^5 choices of the stage 2 radios, the stage 3 answers with
\* some moat and bias boxes, the two stage 4 dates with any ticking of the
\* six boxes, a stage 5 decision and a conviction level) and presses that
\* stage's save button.
VerdictInputs ==
    {[stage |-> 1, nogo_flags |-> n, go_flags |-> g] :
        n \in [nogo_items -> BOOLEAN], g \in [go_items -> BOOLEAN]}
    \cup {[stage |-> 2, scores |-> sc] : sc \in [score_items -> {0, 1, 2}]}
    \cup {[stage |-> 3, answers |-> a, moat |-> Flags(moat_items, mt),
           moat_other |-> o, bias_flags |-> Flags(bias_items, b)] :
             a \in AnswerInputs, mt \in {{}, {"brand"}}, o \in {"", "x"},
             b \in {{}, {"bias_certain", "bias_calm"}}}
    \cup {[stage |-> 4, comp |-> c, rev |-> r,
           prohibitions |-> Flags(prohibitions, p), todos |-> Flags(todos, t)] :
             c \in 1..3, r \in 1..4, p \in SUBSET prohibitions, t \in SUBSET todos}
    \cup {[stage |-> 5, decision |-> dc, conviction |-> cv] :
             dc \in {"invest", "watchlist", "pass"}, cv \in DOMAIN conviction_to_size}

\* The stage 1 boxes are set as in doc.
FillStage1 ==
    /\ out.op = "none"
    /\ doc.stage = 1
    /\ \E d \in {[analysis EXCEPT !.stage1 =
                       [nogo_flags |-> doc.nogo_flags, go_flags |-> doc.go_flags] @@ @]} :
          analysis' = Render(d)
    /\ out' = [op |-> "filled"]
    /\ lastOp' = Op("run", <<>>)
    /\ UNCHANGED <<dashboard, store, menu, clock, live, doc>>

\* The stage 2 radios are set as in doc.
FillStage2 ==
    /\ out.op = "none"
    /\ doc.stage = 2
    /\ \E d \in {[analysis EXCEPT !.stage2 = doc.scores @@ @]} :
          analysis' = Render(d)
    /\ out' = [op |-> "filled"]
    /\ lastOp' = Op("run", <<>>)
    /\ UNCHANGED <<dashboard, store, menu, clock, live, doc>>

\* The stage 3 answers, moat boxes and bias boxes are set as in doc.
FillStage3 ==
    /\ out.op = "none"
    /\ doc.stage = 3
    /\ \E d \in {[analysis EXCEPT !.stage3 =
                       doc.answers @@
                       [moat |-> doc.moat, moat_other |-> doc.moat_other,
                        bias_flags |-> doc.bias_flags] @@ @]} :
          analysis' = Render(d)
    /\ out' = [op |-> "filled"]
    /\ lastOp' = Op("run", <<>>)
    /\ UNCHANGED <<dashboard, store, menu, clock, live, doc>>

\* The two stage 4 dates and the six boxes are set as in doc.
FillStage4 ==
    /\ out.op = "none"
    /\ doc.stage = 4
    /\ \E d \in {[analysis EXCEPT !.stage4 =
                       [analysis_complete_date |-> strftime(doc.comp),
                        review_date |-> strftime(doc.rev),
                        prohibitions |-> doc.prohibitions,
                        todos |-> doc.todos] @@ @]} :
          analysis' = Render(d)
    /\ out' = [op |-> "filled"]
    /\ lastOp' = Op("run", <<>>)
    /\ UNCHANGED <<dashboard, store, menu, clock, live, doc>>

\* The stage 5 decision is set as in doc and, when the slider is shown on
\* the next run, the conviction level.
FillStage5 ==
    /\ out.op = "none"
    /\ doc.stage = 5
    /\ \E d \in {Render([analysis EXCEPT !.stage5 =
                              [decision |-> doc.decision] @@ @])} :
          analysis' = IF d.stage5.decision = "invest"
                      THEN Render([d EXCEPT !.stage5 =
                                      [conviction |-> doc.conviction] @@ @])
                      ELSE d
    /\ out' = [op |-> "filled"]
    /\ lastOp' = Op("run", <<>>)
    /\ UNCHANGED <<dashboard, store, menu, clock, live, doc>>

\* The save button of the stage that was filled in.
SaveFilled ==
    /\ out.op = "filled"
    /\ clock < MaxWrites
    /\ \E d \in {IF doc.stage = 5 THEN SavedByStage5(analysis)
                 ELSE SavedByStage(doc.stage, analysis)} :
          /\ store' = save_analysis(store, d, clock + 1)
          /\ analysis' = Render(d)
          /\ live' = Remember(live, d)
    /\ clock' = clock + 1
    /\ out' = [op |-> "saved"]
    /\ lastOp' = Op(SaveName(doc.stage), <<>>)
    /\ UNCHANGED <<dashboard, menu, doc>>

InitVerdict ==
    /\ analysis = Render(init_analysis_data)
    /\ store = EmptyDict
    /\ menu = "new"
    /\ clock = 0
    /\ lastOp = Op("run", <<>>)
    /\ live = EmptyDict
    /\ doc \in VerdictInputs
    /\ out = Idle
    /\ NoDashboard

NextVerdict ==
    FillStage1 \/ FillStage2 \/ FillStage3 \/ FillStage4 \/ FillStage5
        \/ SaveFilled

SpecVerdict == InitVerdict /\ [][NextVerdict]_vars

\* ======================================================= the dashboard
\* src/app.py: the portfolio page.  The script reads the trade-history CSV,
\* the quotes and the two cash inputs, and displays the positions; the only
\* state it keeps between runs is hidden_tickers and show_yen.
\*
\* A Python float is modelled as the exact rational number it stands for
\* (rounding of the binary representation is left out).  A rational is a
\* record [n, d] in lowest terms with d > 0, so equal numbers are equal
\* records.
RECURSIVE GCD(_, _)
GCD(a, b) == IF b = 0 THEN a ELSE GCD(b, a % b)

Rat(n, d) ==
    LET g == GCD(Abs(n), Abs(d))
        s == IF d < 0 THEN 0 - 1 ELSE 1
    IN  [n |-> (s * n) \div g, d |-> (s * d) \div g]

RatOf(i) == [n |-> i, d |-> 1]

RatNeg(a) == [n |-> 0 - a.n, d |-> a.d]

\* 1 / a for a # 0
RatInv(a) == IF a.n < 0 THEN [n |-> 0 - a.d, d |-> 0 - a.n] ELSE [n |-> a.d, d |-> a.n]

\* Common factors are divided out before multiplying, which keeps the
\* intermediate integers small.
RatAdd(a, b) ==
    LET g == GCD(a.d, b.d)
    IN  Rat(a.n * (b.d \div g) + b.n * (a.d \div g), (a.d \div g) * b.d)

RatSub(a, b) == RatAdd(a, RatNeg(b))

RatMul(a, b) ==
    LET g1 == GCD(Abs(a.n), b.d)
        g2 == GCD(Abs(b.n), a.d)
    IN  Rat((a.n \div g1) * (b.n \div g2), (a.d \div g2) * (b.d \div g1))

\* a / b for b # 0
RatDiv(a, b) == RatMul(a, RatInv(b))

RatLess(a, b) ==
    LET g == GCD(a.d, b.d)
    IN  a.n * (b.d \div g) < b.n * (a.d \div g)

RatLeq(a, b) == ~RatLess(b, a)

\* ---------------------------------------------------------- the CSV rows
\* The values of the column "取引" are written in ASCII: "現買" -> "buy",
\* "現売" -> "sell".  A row of df holds the four columns the script keeps:
\* ticker ("銘柄コード"), trade ("取引"), quantity ("約定数量", read as an
\* integer) and price ("約定単価", the text of the cell).
Row(ticker, trade, quantity, price) ==
    [ticker |-> ticker, trade |-> trade, quantity |-> quantity, price |-> price]

\* s starts with the text pat.
StartsWith(s, pat) == Len(s) >= Len(pat) /\ SubSeq(s, 1, Len(pat)) = pat

\* str.replace(pat, "")
RECURSIVE Remove_text(_, _)
Remove_text(s, pat) ==
    IF s = <<>> THEN <<>>
    ELSE IF StartsWith(s, pat) THEN Remove_text(SubSeq(s, Len(pat) + 1, Len(s)), pat)
    ELSE <<Head(s)>> \o Remove_text(Tail(s), pat)

RECURSIVE Pow10(_)
Pow10(k) == IF k = 0 THEN 1 ELSE 10 * Pow10(k - 1)

\* float(s) for a decimal numeral: digits with at most one "."
astype_float(s) ==
    LET dots == {i \in 1..Len(s) : s[i] = "."}
    IN  IF dots = {} THEN RatOf(TextNat(s))
        ELSE LET p == CHOOSE i \in dots : TRUE
                 whole == SubSeq(s, 1, p - 1)
                 frac  == SubSeq(s, p + 1, Len(s))
             IN  Rat(TextNat(whole \o frac), Pow10(Len(frac)))

\* df["約定単価"].str.replace("USD", "").str.replace(",", "").astype(float)
unit_price(text) ==
    astype_float(Remove_text(Remove_text(text, <<"U", "S", "D">>), <<",">>))

\* Mutant of signed_qty: every trade counts as a purchase.
signed_qty_Unsigned(row) == row.quantity

\* df["signed_qty"]: the quantity, negated unless the trade is "現買".
signed_qty(row) == IF row.trade = "buy" THEN row.quantity ELSE 0 - row.quantity

\* df["金額"] = df["約定単価"] * df["signed_qty"]
amount(row) == RatMul(unit_price(row.price), RatOf(signed_qty(row)))

\* groupby("銘柄コード").agg({"signed_qty": "sum", "金額": "sum"}): the sums
\* over the rows of one ticker.
RECURSIVE SumQty(_, _)
SumQty(df, t) ==
    IF df = <<>> THEN 0
    ELSE (IF Head(df).ticker = t THEN signed_qty(Head(df)) ELSE 0) + SumQty(Tail(df), t)

RECURSIVE SumAmount(_, _)
SumAmount(df, t) ==
    IF df = <<>> THEN RatOf(0)
    ELSE RatAdd(IF Head(df).ticker = t THEN amount(Head(df)) ELSE RatOf(0),
                SumAmount(Tail(df), t))

\* The position table of lines 129-131, one row per ticker kept:
\* "signed_qty", "金額" (amount) and "平均取得単価" (average_cost).
position_of(df) ==
    LET grouped == {df[i].ticker : i \in 1..Len(df)}
        kept    == {t \in grouped : SumQty(df, t) > 0}
    IN  [t \in kept |->
            [signed_qty   |-> SumQty(df, t),
             amount       |-> SumAmount(df, t),
             average_cost |-> RatDiv(SumAmount(df, t), RatOf(SumQty(df, t)))]]

\* The trade histories handed to the aggregation in SpecPositions: up to
\* MaxTrades rows over two tickers, buys and sells, two quantities and two
\* price cells (one with a thousands separator, one with a currency suffix).
Tickers == {"AAA", "BBB"}

PriceTexts == {<<"1", ",", "0", "0", "0">>, <<"2", "0", ".", "5", "U", "S", "D">>}

TradeRows ==
    {Row(t, k, q, p) : t \in Tickers, k \in {"buy", "sell"}, q \in {1, 2}, p \in PriceTexts}

TradeLists == UNION {[1..n -> TradeRows] : n \in 1..MaxTrades}

\* Lines 120-131 on the uploaded CSV.
Aggregate ==
    /\ out.op = "none"
    /\ out' = [op |-> "position", position |-> position_of(doc)]
    /\ UNCHANGED <<dashboard, analysis, store, menu, clock, lastOp, live, doc>>

InitPositions ==
    /\ analysis = Render(init_analysis_data)
    /\ store = EmptyDict
    /\ menu = "new"
    /\ clock = 0
    /\ lastOp = Op("run", <<>>)
    /\ live = EmptyDict
    /\ doc \in TradeLists
    /\ out = Idle
    /\ NoDashboard

NextPositions == Aggregate

SpecPositions == InitPositions /\ [][NextPositions]_vars

\* ------------------------------------------------------------ the quotes
\* A value the quote provider does not have (None, NaN in the table).
None == [t |-> "None"]

\* fetch_stock_info(ticker), the two fields the valuation reads.
Quote(price, prev_close) == [price |-> price, prev_close |-> prev_close]

\* Lines 155-166: the quotes are joined to the position table, rows without
\* a price or a previous close are dropped, "評価額" (valuation) and
\* "騰落率" (change) are added.
valued(position, info) ==
    LET kept == {t \in DOMAIN position :
                    info[t].price # None /\ info[t].prev_close # None}
    IN  [t \in kept |->
            [signed_qty |-> position[t].signed_qty,
             price      |-> info[t].price,
             prev_close |-> info[t].prev_close,
             valuation  |-> RatMul(RatOf(position[t].signed_qty), info[t].price),
             change     |-> RatDiv(RatSub(info[t].price, info[t].prev_close),
                                   info[t].prev_close)]]

\* yf.Ticker(ticker).info raised.
Raises == [t |-> "raises"]

\* Mutant of fetch_stock_info: a missing previous close is taken to be the
\* current price.
fetch_stock_info_PrevDefault(reply) ==
    IF reply = Raises THEN Quote(None, None)
    ELSE Quote(Get(reply, "regularMarketPrice", None),
               Get(reply, "previousClose", Get(reply, "regularMarketPrice", None)))

\* fetch_stock_info on the provider's reply (Raises, or the info dict).
fetch_stock_info(reply) ==
    IF reply = Raises THEN Quote(None, None)
    ELSE Quote(Get(reply, "regularMarketPrice", None),
               Get(reply, "previousClose", None))

\* The replies of the quote provider in SpecQuotes: an exception, both
\* prices, one of them missing or null, neither.
Replies ==
    {Raises,
     [regularMarketPrice |-> Rat(11, 1), previousClose |-> Rat(10, 1)],
     [regularMarketPrice |-> Rat(45, 2), previousClose |-> Rat(25, 1)],
     [regularMarketPrice |-> Rat(11, 1)],
     [previousClose |-> Rat(10, 1)],
     [regularMarketPrice |-> None, previousClose |-> Rat(10, 1)],
     EmptyDict}

QuoteTrades ==
    {<<Row("AAA", "buy", 2, <<"1", ",", "0", "0", "0">>),
       Row("BBB", "buy", 2, <<"2", "0", ".", "5", "U", "S", "D">>),
       Row("AAA", "sell", 1, <<"1", ",", "0", "0", "0">>)>>,
     <<Row("AAA", "buy", 2, <<"1", ",", "0", "0", "0">>),
       Row("BBB", "sell", 1, <<"1", ",", "0", "0", "0">>)>>,
     <<Row("BBB", "buy", 2, <<"2", "0", ".", "5", "U", "S", "D">>)>>}

QuoteInputs == {[df |-> df, replies |-> r] : df \in QuoteTrades, r \in [Tickers -> Replies]}

\* Lines 120-166: the positions of the CSV, a quote fetched for each, the
\* rows without both prices dropped, valuation and change added.
Valuate ==
    /\ out.op = "none"
    /\ \E position \in {position_of(doc.df)} :
          out' = [op |-> "valued",
                  table |-> valued(position,
                                   [t \in DOMAIN position |->
                                       fetch_stock_info(doc.replies[t])])]
    /\ UNCHANGED <<dashboard, analysis, store, menu, clock, lastOp, live, doc>>

InitQuotes ==
    /\ analysis = Render(init_analysis_data)
    /\ store = EmptyDict
    /\ menu = "new"
    /\ clock = 0
    /\ lastOp = Op("run", <<>>)
    /\ live = EmptyDict
    /\ doc \in QuoteInputs
    /\ out = Idle
    /\ NoDashboard

NextQuotes == Valuate

SpecQuotes == InitQuotes /\ [][NextQuotes]_vars

\* table[rows]["評価額"].sum()
RECURSIVE SumValuation(_, _)
SumValuation(table, rows) ==
    IF rows = {} THEN RatOf(0)
    ELSE LET t == CHOOSE x \in rows : TRUE
         IN  RatAdd(table[t].valuation, SumValuation(table, rows \ {t}))

\* ------------------------------------------------------ the risk figures
\* fetch_history(ticker) as the risk loop reads it: the number of closing
\* prices, the number of days its returns share with the benchmark's, and
\* the value of cov(stock, spy) / cov(spy, spy) on those days.
History(length, aligned, beta) == [length |-> length, aligned |-> aligned, beta |-> beta]

\* Lines 181-196.
stock_beta(hist) ==
    IF hist.length > 20
    THEN (IF hist.aligned > 20 THEN hist.beta ELSE None)
    ELSE None

\* Line 198.
portfolio_weight(valuation, total_eval) ==
    IF RatLess(RatOf(0), total_eval) THEN RatDiv(valuation, total_eval) ELSE RatOf(0)

\* stock_betas.get(t) or 0
BetaOrZero(beta) == IF beta = None \/ beta = RatOf(0) THEN RatOf(0) ELSE beta

RECURSIVE SumWeightedBeta(_, _, _)
SumWeightedBeta(weights, betas, rows) ==
    IF rows = {} THEN RatOf(0)
    ELSE LET t == CHOOSE x \in rows : TRUE
         IN  RatAdd(RatMul(weights[t], BetaOrZero(betas[t])),
                    SumWeightedBeta(weights, betas, rows \ {t}))

\* Lines 177-231, the beta part: table holds the valuations, hist the
\* price histories.
risk(table, hist) ==
    LET total_eval        == SumValuation(table, DOMAIN table)
        stock_betas       == [t \in DOMAIN table |-> stock_beta(hist[t])]
        portfolio_weights == [t \in DOMAIN table |->
                                 portfolio_weight(table[t].valuation, total_eval)]
        stock_returns     == {t \in DOMAIN table : hist[t].length > 20}
    IN  [op                |-> "risk",
         stock_betas       |-> stock_betas,
         portfolio_weights |-> portfolio_weights,
         portfolio_beta    |-> IF stock_returns # {}
                               THEN SumWeightedBeta(portfolio_weights, stock_betas,
                                                    DOMAIN table)
                               ELSE RatOf(0)]

\* The inputs of SpecRisk: two positions, each with one of three valuations
\* and a history that is too short, long but with too few days in common
\* with the benchmark, or long with one of two betas.
Histories ==
    {History(20, 19, Rat(6, 5)), History(30, 20, Rat(6, 5)),
     History(30, 29, Rat(6, 5)), History(30, 29, Rat(4, 5))}

RiskInputs ==
    {[table |-> [t \in Tickers |-> [valuation |-> RatOf(v[t])]], hist |-> h] :
        v \in [Tickers -> {0, 10, 30}], h \in [Tickers -> Histories]}

Risk ==
    /\ out.op = "none"
    /\ out' = risk(doc.table, doc.hist)
    /\ UNCHANGED <<dashboard, analysis, store, menu, clock, lastOp, live, doc>>

InitRisk ==
    /\ analysis = Render(init_analysis_data)
    /\ store = EmptyDict
    /\ menu = "new"
    /\ clock = 0
    /\ lastOp = Op("run", <<>>)
    /\ live = EmptyDict
    /\ doc \in RiskInputs
    /\ out = Idle
    /\ NoDashboard

NextRisk == Risk

SpecRisk == InitRisk /\ [][NextRisk]_vars

\* ------------------------------------------------- the portfolio's returns
\* Lines 204-225.  A history also carries returns, the daily returns
\* hist.pct_change().dropna() (here MaxDays of them).  The standard
\* deviation and its square root are not rational: the annualised volatility
\* is kept as its square, and the Sharpe ratio as the excess return together
\* with that square.
RECURSIVE SumRat(_, _)
SumRat(f, keys) ==
    IF keys = {} THEN RatOf(0)
    ELSE LET k == CHOOSE x \in keys : TRUE
         IN  RatAdd(f[k], SumRat(f, keys \ {k}))

\* (1 + r).cumprod()
RECURSIVE cumprod(_, _)
cumprod(r, i) ==
    IF i = 1 THEN RatAdd(RatOf(1), r[1])
    ELSE RatMul(cumprod(r, i - 1), RatAdd(RatOf(1), r[i]))

RatMax(a, b) == IF RatLess(a, b) THEN b ELSE a

RatMin(a, b) == IF RatLess(b, a) THEN b ELSE a

\* cumulative.cummax()
RECURSIVE cummax(_, _)
cummax(c, i) == IF i = 1 THEN c[1] ELSE RatMax(cummax(c, i - 1), c[i])

\* drawdown.min()
RECURSIVE MinOver(_, _)
MinOver(f, i) == IF i = 1 THEN f[1] ELSE RatMin(MinOver(f, i - 1), f[i])

risk_free_rate == Rat(45, 1000)

portfolio_stats(table, hist) ==
    LET total_eval == SumValuation(table, DOMAIN table)
        portfolio_weights == [t \in DOMAIN table |->
                                 portfolio_weight(table[t].valuation, total_eval)]
        columns == {t \in DOMAIN table : hist[t].length > 20}
    IN  IF columns = {}
        THEN [portfolio_annual_return |-> RatOf(0), portfolio_annual_vol_squared |-> RatOf(0),
              sharpe_ratio |-> RatOf(0), max_drawdown |-> RatOf(0)]
        ELSE
        LET weights_sum == SumRat(portfolio_weights, columns)
            weights == [t \in columns |-> RatDiv(portfolio_weights[t], weights_sum)]
            days == 1..MaxDays
            daily == [i \in days |->
                        SumRat([t \in columns |-> RatMul(hist[t].returns[i], weights[t])],
                               columns)]
            mean == RatDiv(SumRat(daily, days), RatOf(MaxDays))
            squares == [i \in days |->
                          RatMul(RatSub(daily[i], mean), RatSub(daily[i], mean))]
            variance == RatDiv(SumRat(squares, days), RatOf(MaxDays - 1))
            annual_return == RatMul(mean, RatOf(252))
            vol_squared == RatMul(variance, RatOf(252))
            cumulative == [i \in days |-> cumprod(daily, i)]
            peak == [i \in days |-> cummax(cumulative, i)]
            drawdown == [i \in days |->
                           RatDiv(RatSub(cumulative[i], peak[i]), peak[i])]
        IN  [portfolio_annual_return |-> annual_return,
             portfolio_annual_vol_squared |-> vol_squared,
             sharpe_ratio |-> IF RatLess(RatOf(0), vol_squared)
                              THEN [excess |-> RatSub(annual_return, risk_free_rate),
                                    vol_squared |-> vol_squared]
                              ELSE RatOf(0),
             max_drawdown |-> MinOver(drawdown, MaxDays)]

\* The four figures of the risk summary (lines 245-258).
risk_summary(table, hist) ==
    LET stats == portfolio_stats(table, hist)
    IN  [portfolio_beta       |-> risk(table, hist).portfolio_beta,
         portfolio_annual_vol_squared |-> stats.portfolio_annual_vol_squared,
         sharpe_ratio         |-> stats.sharpe_ratio,
         max_drawdown         |-> stats.max_drawdown]

\* Lines 416-419: the per-ticker table, over every position ("構成比" is
\* written share, "β値" beta).
metrics_df(position, betas) ==
    [t \in DOMAIN position |->
        [valuation |-> position[t].valuation,
         share     |-> RatDiv(position[t].valuation,
                              SumValuation(position, DOMAIN position)),
         beta      |-> betas[t]]]

\* ----------------------------------------------------------- the display
\* Mutant of total_value: the hidden tickers are counted too.
total_value_All(table, hidden, cash_usd, cash_jpy, fx_rate) ==
    RatAdd(RatAdd(SumValuation(table, DOMAIN table), cash_usd),
           RatDiv(cash_jpy, fx_rate))

\* Lines 274-275.
total_value(table, hidden, cash_usd, cash_jpy, fx_rate) ==
    RatAdd(RatAdd(SumValuation(table, DOMAIN table \ hidden), cash_usd),
           RatDiv(cash_jpy, fx_rate))

\* The amount handed to the number format of the chosen currency (lines
\* 277-282 and 297-300); the format itself (rounding to 2 or 0 decimals) is
\* left out.
shown(value, yen, fx_rate) == IF yen THEN RatMul(value, fx_rate) ELSE value

\* One row of the list of holdings (lines 293-311).
holding(table, ticker, hidden, yen, total, fx_rate) ==
    LET is_hidden  == ticker \in hidden
        eval_value == IF ~is_hidden THEN table[ticker].valuation ELSE RatOf(0)
    IN  [eval_value   |-> eval_value,
         eval_display |-> shown(eval_value, yen, fx_rate),
         percent      |-> IF RatLess(RatOf(0), total)
                          THEN RatMul(RatDiv(eval_value, total), RatOf(100))
                          ELSE RatOf(0),
         label        |-> IF ~is_hidden THEN "hide" ELSE "show"]

\* The Japanese labels are written in ASCII: "円" -> "JPY", "非表示" ->
\* "hide", "再表示" -> "show", "現金" -> "cash".
\* What one run of the script displays in the first two columns: the total,
\* the list of holdings, and the data of the pie chart (lines 339-347: the
\* visible positions and the cash, "現金" written "cash").
\* Mutant of Display: the metrics table is built from the visible positions.
Display_VisibleMetrics(input, hidden, yen) ==
    LET table == valued(position_of(input.df), input.info)
        total == total_value(table, hidden, input.cash_usd, input.cash_jpy,
                             input.fx_rate)
    IN  [op             |-> "display",
         risk_summary   |-> risk_summary(table, input.hist),
         total_value    |-> total,
         fmt_total      |-> shown(total, yen, input.fx_rate),
         currency_label |-> IF yen THEN "JPY" ELSE "USD",
         holdings       |-> [t \in DOMAIN table |->
                                holding(table, t, hidden, yen, total, input.fx_rate)],
         pie_data       |-> [t \in (DOMAIN table \ hidden) \cup {"cash"} |->
                                IF t = "cash"
                                THEN RatAdd(input.cash_usd,
                                            RatDiv(input.cash_jpy, input.fx_rate))
                                ELSE table[t].valuation],
         metrics        |-> metrics_df([t \in DOMAIN table \ hidden |-> table[t]],
                                       risk(table, input.hist).stock_betas)]

Display(input, hidden, yen) ==
    LET table == valued(position_of(input.df), input.info)
        total == total_value(table, hidden, input.cash_usd, input.cash_jpy,
                             input.fx_rate)
    IN  [op             |-> "display",
         risk_summary   |-> risk_summary(table, input.hist),
         total_value    |-> total,
         fmt_total      |-> shown(total, yen, input.fx_rate),
         currency_label |-> IF yen THEN "JPY" ELSE "USD",
         holdings       |-> [t \in DOMAIN table |->
                                holding(table, t, hidden, yen, total, input.fx_rate)],
         pie_data       |-> [t \in (DOMAIN table \ hidden) \cup {"cash"} |->
                                IF t = "cash"
                                THEN RatAdd(input.cash_usd,
                                            RatDiv(input.cash_jpy, input.fx_rate))
                                ELSE table[t].valuation],
         metrics        |-> metrics_df(table,
                                       risk(table, input.hist).stock_betas)]

\* ---------------------------------------------- the dashboard's buttons
\* What the dashboard reads in SpecDashboard: a CSV with two positions, the
\* quotes (one may lack its previous close), the price histories, the cash
\* inputs and the exchange rate.
DashboardTrades ==
    <<Row("AAA", "buy", 2, <<"1", ",", "0", "0", "0">>),
      Row("BBB", "buy", 1, <<"2", "0", ".", "5", "U", "S", "D">>),
      Row("AAA", "sell", 1, <<"1", ",", "0", "0", "0">>)>>

DashboardQuotes ==
    {[AAA |-> Quote(Rat(11, 1), Rat(10, 1)), BBB |-> Quote(Rat(45, 2), Rat(25, 1))],
     [AAA |-> Quote(Rat(11, 1), Rat(10, 1)), BBB |-> Quote(Rat(45, 2), None)]}

CashInputs == {<<RatOf(0), RatOf(0)>>, <<RatOf(100), RatOf(0)>>, <<RatOf(0), RatOf(1000)>>}

FxRates == {RatOf(150), Rat(291, 2)}

\* The daily returns of the two price histories: AAA alternates +10% and
\* -10%, BBB alternates 0 and -10%.
DailyReturns ==
    [AAA |-> [i \in 1..MaxDays |-> IF i % 2 = 1 THEN Rat(1, 10) ELSE Rat(0 - 1, 10)],
     BBB |-> [i \in 1..MaxDays |-> IF i % 2 = 1 THEN RatOf(0) ELSE Rat(0 - 1, 10)]]

\* The price histories: both long enough, or BBB's too short for a beta.
DashboardHistories ==
    {[t \in Tickers |->
         History(n[t], n[t] - 1, IF t = "AAA" THEN Rat(6, 5) ELSE Rat(4, 5))
            @@ [returns |-> DailyReturns[t]]] :
       n \in {[AAA |-> 30, BBB |-> 30], [AAA |-> 30, BBB |-> 20]}}

DashboardInputs ==
    {[df |-> DashboardTrades, info |-> q, hist |-> h,
      cash_usd |-> RatOf(0), cash_jpy |-> RatOf(0), fx_rate |-> fx] :
        q \in DashboardQuotes, h \in DashboardHistories, fx \in FxRates}

\* The tickers the list of holdings shows (sorted_position.index).
Listed(input) == DOMAIN valued(position_of(input.df), input.info)

NoClicks == [toggle |-> [t \in Tickers |-> 0], currency |-> 0]

\* Mutant of toggled: the button only ever hides.
toggled_AddOnly(hidden, ticker) == hidden \cup {ticker}

\* Lines 312-315: the set after the button of ticker is pressed.
toggled(hidden, ticker) ==
    IF ticker \in hidden THEN hidden \ {ticker} ELSE hidden \cup {ticker}

\* "非表示" / "再表示" of one ticker, then st.rerun().
ClickToggle(ticker) ==
    /\ out.op = "display"
    /\ ticker \in Listed(doc)
    /\ clicks.toggle[ticker] < MaxClicks
    /\ hidden_tickers' = toggled(hidden_tickers, ticker)
    /\ clicks' = [clicks EXCEPT !.toggle[ticker] = @ + 1]
    /\ out' = Display(doc, hidden_tickers', show_yen)
    /\ lastOp' = Op("toggle", <<ticker>>)
    /\ UNCHANGED <<show_yen, analysis, store, menu, clock, live, doc>>

\* "すべて再表示", then st.rerun().
ClickShowAll ==
    /\ out.op = "display"
    /\ hidden_tickers' = {}
    /\ clicks' = [clicks EXCEPT !.toggle = [t \in Tickers |-> 0]]
    /\ out' = Display(doc, hidden_tickers', show_yen)
    /\ lastOp' = Op("showall", <<>>)
    /\ UNCHANGED <<show_yen, analysis, store, menu, clock, live, doc>>

\* "USD⇔JPY": the flag is flipped before the amounts are displayed.
ClickCurrency ==
    /\ out.op = "display"
    /\ clicks.currency < MaxClicks
    /\ show_yen' = ~show_yen
    /\ clicks' = [clicks EXCEPT !.currency = @ + 1]
    /\ out' = Display(doc, hidden_tickers, show_yen')
    /\ lastOp' = Op("currency", <<>>)
    /\ UNCHANGED <<hidden_tickers, analysis, store, menu, clock, live, doc>>

\* One of the two cash inputs is edited.
EditCash(cash_usd, cash_jpy) ==
    /\ out.op = "display"
    /\ <<cash_usd, cash_jpy>> # <<doc.cash_usd, doc.cash_jpy>>
    /\ doc' = [doc EXCEPT !.cash_usd = cash_usd, !.cash_jpy = cash_jpy]
    /\ out' = Display(doc', hidden_tickers, show_yen)
    /\ lastOp' = Op("cash", <<>>)
    /\ UNCHANGED <<dashboard, analysis, store, menu, clock, live>>

\* The session after the first run of the script on an uploaded CSV.
InitDashboard ==
    /\ analysis = Render(init_analysis_data)
    /\ store = EmptyDict
    /\ menu = "new"
    /\ clock = 0
    /\ lastOp = Op("run", <<>>)
    /\ live = EmptyDict
    /\ doc \in DashboardInputs
    /\ hidden_tickers = {}
    /\ show_yen = FALSE
    /\ clicks = NoClicks
    /\ out = Display(doc, hidden_tickers, show_yen)

NextDashboard ==
    \/ \E t \in Tickers : ClickToggle(t)
    \/ ClickShowAll
    \/ ClickCurrency
    \/ \E c \in CashInputs : EditCash(c[1], c[2])

SpecDashboard == InitDashboard /\ [][NextDashboard]_vars

\* ----------------------------------------------------------- the heatmap
\* Mutant of classify_color: the edge -1% falls in the weaker red band.
classify_color_Asym(rate) ==
    IF RatLeq(Rat(2, 100), rate) THEN "#66ff66"
    ELSE IF RatLeq(Rat(1, 100), rate) THEN "#339933"
    ELSE IF RatLess(RatOf(0), rate) THEN "#003300"
    ELSE IF rate = RatOf(0) THEN "#e0e0e0"
    ELSE IF RatLeq(Rat(0 - 1, 100), rate) THEN "#6e4e4e"
    ELSE IF RatLess(Rat(0 - 2, 100), rate) THEN "#cc3333"
    ELSE "#ff6666"

\* Lines 323-337.
classify_color(rate) ==
    IF RatLeq(Rat(2, 100), rate) THEN "#66ff66"
    ELSE IF RatLeq(Rat(1, 100), rate) THEN "#339933"
    ELSE IF RatLess(RatOf(0), rate) THEN "#003300"
    ELSE IF rate = RatOf(0) THEN "#e0e0e0"
    ELSE IF RatLess(Rat(0 - 1, 100), rate) THEN "#6e4e4e"
    ELSE IF RatLess(Rat(0 - 2, 100), rate) THEN "#cc3333"
    ELSE "#ff6666"

\* The rates handed to classify_color in SpecColor: every multiple of 0.1%
\* from -MaxRate to MaxRate thousandths.
Rates == {Rat(k, 1000) : k \in (0 - MaxRate)..MaxRate}

\* colors_tm = [classify_color(v) for v in values["騰落率"]], one value.
Classify ==
    /\ out.op = "none"
    /\ out' = [op |-> "color", color |-> classify_color(doc)]
    /\ UNCHANGED <<dashboard, analysis, store, menu, clock, lastOp, live, doc>>

InitColor ==
    /\ analysis = Render(init_analysis_data)
    /\ store = EmptyDict
    /\ menu = "new"
    /\ clock = 0
    /\ lastOp = Op("run", <<>>)
    /\ live = EmptyDict
    /\ doc \in Rates
    /\ out = Idle
    /\ NoDashboard

NextColor == Classify

SpecColor == InitColor /\ [][NextColor]_vars

\* ================================================================ claims
FilePathOf(data) == get_analysis_filepath(data.ticker, data.date)

JsonPaths == {fp \in DOMAIN store : Loads(store, fp)}

StoredRecords == {load_analysis(store, fp) : fp \in JsonPaths}

\* Every stage before current_stage is passing in record d.
Gated(d) ==
    /\ d.current_stage >= 2 => d.stage1.result = "GO"
    /\ d.current_stage >= 3 => d.stage2.total_score >= 5
    /\ d.current_stage >= 4 => d.stage3.result = Complete
    /\ d.current_stage >= 5 => d.stage4.result = Complete

\* C1 (as claimed): in every session state and every stored record,
\* current_stage = n implies that every stage before n is currently passing.
C1_SequentiallyGated == Gated(analysis) /\ \A d \in StoredRecords : Gated(d)

\* The completion condition of stage k, in the words of the claim, on a
\* record the page has rendered.
CompletionHolds(k, d) ==
    CASE k = 1 -> d.stage1.result = "GO"
      [] k = 2 -> d.stage2.total_score >= 5
      [] k = 3 -> \A q \in devil_items : d.stage3[q] # ""
      [] k = 4 -> d.stage4.result = Complete

\* Record data is in its file among files, written at time t.
WrittenAt(data, files, t) ==
    /\ FilePathOf(data) \in DOMAIN files
    /\ files[FilePathOf(data)].mtime = t
    /\ Loads(files, FilePathOf(data))
    /\ load_analysis(files, FilePathOf(data)) = data

\* C2: the save button of stage k (k in 1..4) sets current_stage to
\* max(old current_stage, k+1) when stage k's completion condition holds at
\* that moment and leaves it unchanged otherwise; in both cases the record
\* is written to its file.
C2_SaveAdvancesOnCompletion ==
    [][\A k \in 1..4 :
          lastOp'.op = SaveName(k) =>
             /\ analysis'.current_stage =
                   IF CompletionHolds(k, analysis)
                   THEN Max(analysis.current_stage, k + 1)
                   ELSE analysis.current_stage
             /\ clock' = clock + 1
             /\ WrittenAt(analysis', store', clock')]_vars

C2_Witness ==
    /\ lastOp.op = "save3"
    /\ analysis.current_stage = 4
    /\ analysis.stage1.result # "GO"
    /\ WrittenAt(analysis, store, clock)

\* C3: current_stage is in 1..5 in the session and in every file, starts at
\* 1, and never decreases within a session except by reset or resume.
C3_StageCounterMonotone ==
    /\ analysis.current_stage = 1
    /\ [](/\ analysis.current_stage \in 1..5
          /\ \A d \in StoredRecords : d.current_stage \in 1..5)
    /\ [][analysis'.current_stage < analysis.current_stage
             => lastOp'.op \in {"reset", "resume"}]_vars

C3_Witness ==
    /\ lastOp.op = "save1"
    /\ analysis.current_stage = 5
    /\ analysis.stage1.result = "GO"

\* The Python value of a nested value, every scalar with its type.
RECURSIVE PyValue(_)
PyValue(node) ==
    CASE node.t = "dict" ->
            [k \in {node.v[i][1] : i \in 1..Len(node.v)} |->
                PyValue(TreeGet(node.v, k, node))]
      [] node.t = "list" -> [i \in 1..Len(node.v) |-> PyValue(node.v[i])]
      [] OTHER -> node

\* C4: for every analysis record d, load_analysis(save_analysis(d)) equals
\* d, and saving the loaded record again writes the same file path with the
\* same content (and no other file).
C4_PersistedVerbatim ==
    /\ [](out.op \in {"loaded", "resaved"} =>
             /\ out.data.ok
             /\ PyValue(out.data.v) = PyValue(doc))
    /\ [][out'.op = "resaved" =>
             /\ out'.fp = out.fp
             /\ DOMAIN store' = DOMAIN store
             /\ \A fp \in DOMAIN store : store'[fp].content = store[fp].content]_vars

C4_Witness ==
    /\ out.op = "resaved"
    /\ TreeGet(doc.v, "company_name", doc).v = <<"\\", "n">>
    /\ TreeGet(doc.v, "stage2", doc).v # <<>>
    /\ TreeGet(TreeGet(doc.v, "stage2", doc).v, "revenue_yoy", doc).v < 0
    /\ store[out.fp].mtime = 2

\* C5: the store holds exactly one file for each (ticker, date) pair that
\* was saved and not deleted since, that file holds the record saved last
\* for the pair, and two different pairs never share a file.
C5_OneFilePerPair ==
    \E stored \in {[fp \in JsonPaths |-> load_analysis(store, fp)]} :
       /\ Cardinality(DOMAIN stored) = Cardinality(DOMAIN live)
       /\ \A p \in DOMAIN live :
             \E fps \in {{fp \in DOMAIN stored : PairOf(stored[fp]) = p}} :
                /\ Cardinality(fps) = 1
                /\ \A fp \in fps : stored[fp] = live[p]

C5_Witness ==
    /\ lastOp.op = "delete"
    /\ Cardinality(DOMAIN live) = 2
    /\ \E p \in DOMAIN live : live[p].current_stage = 5

\* C6 (as claimed): list_analyses returns the stored analyses ordered by
\* their files' modification time (newest first, or oldest first).
C6_ListedByMtime ==
    LET analyses == list_analyses(store)
        mtime(i) == store[analyses[i].filepath].mtime
        n == Len(analyses)
    IN  \/ \A i, j \in 1..n : i < j => mtime(i) >= mtime(j)
        \/ \A i, j \in 1..n : i < j => mtime(i) <= mtime(j)

\* C7 (as claimed): delete removes exactly the file of the entry the user
\* selected and leaves every other file unchanged.
C7_DeleteRemovesSelected ==
    [][lastOp'.op = "delete" =>
          /\ DOMAIN store' = DOMAIN store \ {lastOp'.sel}
          /\ \A fp \in DOMAIN store' : store'[fp] = store[fp]]_vars

\* C8 (as claimed): right after resume the session record equals the
\* content of the selected entry's file, and no file is created, changed or
\* removed.
C8_ResumeLoadsSelected ==
    [][lastOp'.op = "resume" =>
          /\ analysis' = load_analysis(store, lastOp'.sel)
          /\ store' = store]_vars

\* The scalar leaves of a nested record, each with the path the claim
\* gives it: dictionary keys joined by ".", list positions written "[i]".
RECURSIVE LeavesOf(_, _, _)
LeavesOf(node, path, top) ==
    CASE node.t = "dict" ->
            UNION {LeavesOf(node.v[i][2],
                            IF top THEN node.v[i][1] ELSE path \o "." \o node.v[i][1],
                            FALSE) : i \in 1..Len(node.v)}
      [] node.t = "list" ->
            UNION {LeavesOf(node.v[i], path \o "[" \o Digit(i - 1) \o "]", FALSE) :
                      i \in 1..Len(node.v)}
      [] OTHER -> {<<path, node>>}

\* C9 (as claimed): the result of flatten_dict has exactly one entry per
\* scalar leaf, keyed by the leaf's path and holding its value, and no
\* value of the result is a dictionary or a list.
C9_FlattenLossless ==
    out.op = "flat" =>
        LET leaves == LeavesOf(doc, "", TRUE)
        IN  /\ Cardinality(DOMAIN out.items) = Cardinality(leaves)
            /\ \A l \in leaves : l[1] \in DOMAIN out.items /\ out.items[l[1]] = l[2]
            /\ \A k \in DOMAIN out.items : out.items[k].t \notin {"dict", "list"}

\* C10: whenever the export page is shown, export_all_to_csv yields exactly
\* one row per readable stored analysis, the flattened record (no row when
\* there is none), and the bulk JSON export holds exactly the records of the
\* listed analyses, each equal to its file's content.
C10_BulkExportCoversStore ==
    menu = "export" =>
       \E rows \in {export_all_to_csv(store)}, all_data \in {export_all_to_json(store)},
          analyses \in {list_analyses(store)} :
          /\ Len(rows) = Cardinality(JsonPaths)
          /\ \A fp \in JsonPaths :
                \E row \in {flatten_dict(LoadDoc(store, fp), "")} :
                   \E i \in 1..Len(rows) : rows[i] = row
          /\ Len(all_data) = Len(analyses)
          /\ Len(all_data) = Cardinality(JsonPaths)
          /\ \A i \in 1..Len(analyses) : all_data[i] = LoadDoc(store, analyses[i].filepath)
          /\ \A fp \in JsonPaths : \E i \in 1..Len(all_data) : all_data[i] = LoadDoc(store, fp)

C10_Witness ==
    /\ lastOp.op = "export"
    /\ Cardinality(JsonPaths) = 2
    /\ ForeignPath \in DOMAIN store
    /\ Len(export_all_to_csv(store)) = 2


\* The rows of df that belong to ticker t, and among them the buys.
RowsOf(df, t) == {i \in 1..Len(df) : df[i].ticker = t}

BuysOf(df, t) == {i \in RowsOf(df, t) : df[i].trade = "buy"}

\* The sum of the quantities of the rows rows of df.
RECURSIVE Quantity(_, _)
Quantity(df, rows) ==
    IF rows = {} THEN 0
    ELSE LET i == CHOOSE x \in rows : TRUE
         IN  df[i].quantity + Quantity(df, rows \ {i})

NetQuantity(df, t) ==
    Quantity(df, BuysOf(df, t)) - Quantity(df, RowsOf(df, t) \ BuysOf(df, t))

\* C11: a ticker's net quantity is the sum of the quantities of its buy
\* trades minus the sum of the quantities of all its other trades, and the
\* position table holds exactly the tickers whose net quantity is positive.
C11_NetPositions ==
    out.op = "position" =>
       /\ DOMAIN out.position = {t \in Tickers : NetQuantity(doc, t) > 0}
       /\ \A t \in DOMAIN out.position :
             out.position[t].signed_qty = NetQuantity(doc, t)

C11_Witness ==
    /\ out.op = "position"
    /\ DOMAIN out.position = {"AAA"}
    /\ out.position["AAA"].signed_qty = 1
    /\ Cardinality(RowsOf(doc, "AAA") \ BuysOf(doc, "AAA")) = 1
    /\ RowsOf(doc, "BBB") # {}
    /\ NetQuantity(doc, "BBB") < 0

\* price x quantity summed over the rows rows of df.
RECURSIVE Cost(_, _)
Cost(df, rows) ==
    IF rows = {} THEN RatOf(0)
    ELSE LET i == CHOOSE x \in rows : TRUE
         IN  RatAdd(RatMul(unit_price(df[i].price), RatOf(df[i].quantity)),
                    Cost(df, rows \ {i}))

\* C12 (as claimed): for every ticker of the position table the average
\* cost lies between the lowest and the highest purchase price (so average
\* cost x net quantity lies between lowest price x net quantity and highest
\* price x net quantity), and with buys only it is
\* sum(price x quantity) / sum(quantity).
C12_WeightedAverageCost ==
    out.op = "position" =>
       \A t \in DOMAIN out.position :
          LET buys == BuysOf(doc, t)
              avg  == out.position[t].average_cost
          IN  /\ \E i \in buys : RatLeq(unit_price(doc[i].price), avg)
              /\ \E i \in buys : RatLeq(avg, unit_price(doc[i].price))
              /\ RowsOf(doc, t) = buys =>
                    avg = RatDiv(Cost(doc, buys), RatOf(Quantity(doc, buys)))


\* C13: hidden_tickers is the set of tickers toggled an odd number of times
\* since the last "show all", show_yen is the parity of the number of
\* currency clicks (both start empty / false), a currency click leaves
\* hidden_tickers alone and a toggle or "show all" click leaves show_yen
\* alone.
C13_TogglesIndependent ==
    /\ hidden_tickers = {} /\ show_yen = FALSE
    /\ [](/\ hidden_tickers = {t \in Tickers : clicks.toggle[t] % 2 = 1}
          /\ show_yen = (clicks.currency % 2 = 1))
    /\ [][/\ lastOp'.op = "currency" => hidden_tickers' = hidden_tickers
          /\ lastOp'.op \in {"toggle", "showall"} => show_yen' = show_yen]_vars

C13_Witness ==
    /\ lastOp.op = "toggle"
    /\ clicks.toggle["AAA"] = 2
    /\ clicks.toggle["BBB"] = 1
    /\ clicks.currency = 1
    /\ hidden_tickers = {"BBB"}
    /\ show_yen


\* The sum of the numbers f[t], t in keys.
RECURSIVE Total(_, _)
Total(f, keys) ==
    IF keys = {} THEN RatOf(0)
    ELSE LET t == CHOOSE x \in keys : TRUE
         IN  RatAdd(f[t], Total(f, keys \ {t}))

\* C14: the displayed total is the sum of the valuations of the non-hidden
\* positions plus cash_usd plus cash_jpy / fx_rate; a hidden ticker is shown
\* with valuation 0 and share 0, a visible one with share valuation / total
\* x 100 (0 when the total is 0); when the total is positive the visible
\* shares and the cash share add up to 100; the amounts shown are the
\* amounts in USD, multiplied by fx_rate when the display is in yen, and a
\* currency click changes no share.
C14_TotalAndShares ==
    /\ [](out.op = "display" =>
            LET table     == valued(position_of(doc.df), doc.info)
                valuation == [t \in DOMAIN table |-> table[t].valuation]
                visible   == DOMAIN table \ hidden_tickers
                cash      == RatAdd(doc.cash_usd, RatDiv(doc.cash_jpy, doc.fx_rate))
                total     == RatAdd(Total(valuation, visible), cash)
                share(x)  == IF RatLess(RatOf(0), total)
                             THEN RatDiv(RatMul(x, RatOf(100)), total)
                             ELSE RatOf(0)
                percent   == [t \in DOMAIN out.holdings |-> out.holdings[t].percent]
                money(x)  == IF show_yen THEN RatMul(x, doc.fx_rate) ELSE x
            IN  /\ out.total_value = total
                /\ out.fmt_total = money(total)
                /\ DOMAIN out.holdings = DOMAIN table
                /\ \A t \in DOMAIN table \cap hidden_tickers :
                      /\ out.holdings[t].eval_value = RatOf(0)
                      /\ out.holdings[t].percent = RatOf(0)
                      /\ out.holdings[t].eval_display = RatOf(0)
                /\ \A t \in visible :
                      /\ out.holdings[t].eval_value = valuation[t]
                      /\ out.holdings[t].percent = share(valuation[t])
                      /\ out.holdings[t].eval_display = money(valuation[t])
                /\ RatLess(RatOf(0), total) =>
                      RatAdd(Total(percent, visible), share(out.pie_data["cash"]))
                         = RatOf(100))
    /\ [][lastOp'.op = "currency" =>
             /\ out'.total_value = out.total_value
             /\ \A t \in DOMAIN out.holdings :
                   /\ out'.holdings[t].percent = out.holdings[t].percent
                   /\ out'.holdings[t].eval_value = out.holdings[t].eval_value]_vars

C14_Witness ==
    /\ lastOp.op = "currency"
    /\ show_yen
    /\ hidden_tickers = {"BBB"}
    /\ DOMAIN out.holdings = {"AAA", "BBB"}
    /\ doc.cash_jpy = RatOf(1000)
    /\ doc.fx_rate = Rat(291, 2)
    /\ out.holdings["AAA"].eval_display = Rat(3201, 2)
    /\ RatLess(RatOf(0), out.holdings["AAA"].percent)
    /\ out.holdings["BBB"].percent = RatOf(0)


\* The green shade and the red shade of the same strength.
Mirror(color) ==
    CASE color = "#66ff66" -> "#ff6666" [] color = "#ff6666" -> "#66ff66"
      [] color = "#339933" -> "#cc3333" [] color = "#cc3333" -> "#339933"
      [] color = "#003300" -> "#6e4e4e" [] color = "#6e4e4e" -> "#003300"
      [] color = "#e0e0e0" -> "#e0e0e0"

\* C15: classify_color returns a colour for every rate: the neutral colour
\* exactly for rate 0, for positive rates the green shade of the band
\* (0, 1%), [1%, 2%) or [2%, ...), for negative rates a red shade, and the
\* colour of -r is the mirror image of the colour of r.
C15_ColourSymmetric ==
    out.op = "color" =>
       /\ out.color \in {"#66ff66", "#339933", "#003300", "#e0e0e0",
                         "#6e4e4e", "#cc3333", "#ff6666"}
       /\ (out.color = "#e0e0e0") <=> (doc = RatOf(0))
       /\ RatLess(RatOf(0), doc) =>
             out.color = IF RatLeq(Rat(2, 100), doc) THEN "#66ff66"
                         ELSE IF RatLeq(Rat(1, 100), doc) THEN "#339933"
                         ELSE "#003300"
       /\ RatLess(doc, RatOf(0)) => out.color \in {"#6e4e4e", "#cc3333", "#ff6666"}
       /\ classify_color(RatNeg(doc)) = Mirror(out.color)

C15_Witness ==
    /\ out.op = "color"
    /\ doc = Rat(0 - 1, 100)
    /\ out.color = "#cc3333"


\* C16 (as claimed): when the total valuation is positive the weights sum
\* to 1, and then, whenever every ticker with a computed beta has the same
\* beta b, the portfolio beta equals b.
C16_WeightedBeta ==
    out.op = "risk" =>
       LET valuation == [t \in Tickers |-> doc.table[t].valuation]
           computed  == {t \in Tickers : out.stock_betas[t] # None}
       IN  RatLess(RatOf(0), Total(valuation, Tickers)) =>
              /\ Total(out.portfolio_weights, Tickers) = RatOf(1)
              /\ \A t \in computed :
                    (\A u \in computed : out.stock_betas[u] = out.stock_betas[t])
                       => out.portfolio_beta = out.stock_betas[t]


\* C17 (as claimed): every save action (the save buttons of stages 1 to 5
\* and the sidebar's bulk save) raises current_stage by at most one.
C17_SaveRaisesByOne ==
    [][lastOp'.op \in {SaveName(k) : k \in 1..5} \cup {"bulk"} =>
          analysis'.current_stage <= analysis.current_stage + 1]_vars

\* C18 (as claimed): on a freshly initialised analysis with every widget at
\* its default, no save button of stages 1 to 5 changes current_stage
\* from 1.
C18_NoInputNotComplete ==
    [][(/\ analysis = Render(init_analysis_data)
        /\ lastOp'.op \in {SaveName(k) : k \in 1..5})
          => analysis'.current_stage = 1]_vars


\* C19: for every assignment of the five NO-GO boxes and the three GO
\* boxes, stage1.result is "NO GO" if some NO-GO box is ticked, "GO" if none
\* is and all three GO boxes are ticked, and incomplete otherwise (exactly
\* one of the three), on the page and in the saved record.
C19_Stage1Verdict ==
    (out.op \in {"filled", "saved"} /\ doc.stage = 1) =>
       LET some_nogo == \E k \in nogo_items : doc.nogo_flags[k]
           every_go  == \A k \in go_items : doc.go_flags[k]
           verdict   == CASE some_nogo -> "NO GO"
                          [] ~some_nogo /\ every_go -> "GO"
                          [] OTHER -> Incomplete
       IN  /\ analysis.stage1.nogo_flags = doc.nogo_flags
           /\ analysis.stage1.go_flags = doc.go_flags
           /\ analysis.stage1.result = verdict
           /\ Cardinality({r \in {"NO GO", "GO", Incomplete} :
                              analysis.stage1.result = r}) = 1
           /\ out.op = "saved" =>
                 /\ StoredRecords # {}
                 /\ \A d \in StoredRecords : d.stage1.result = verdict

C19_Witness ==
    /\ out.op = "saved"
    /\ doc.stage = 1
    /\ doc.nogo_flags["speculative"]
    /\ \A k \in go_items : doc.go_flags[k]
    /\ analysis.stage1.result = "NO GO"
    /\ analysis.current_stage = 1

\* The sum of the five judgement scores of a stage 2 dict.
FiveScores(s2) ==
    s2.growth_score + s2.profit_score + s2.balance_score + s2.cf_score
        + s2.valuation_score

\* C20: total_score is the sum of the five judgement scores, each in
\* {0, 1, 2}, hence in 0..10; stage2.result is "excellent" iff total >= 8,
\* "standard" iff 5 <= total <= 7 and "skip" iff total <= 4; and the stored
\* total_score equals the sum of the stored five scores.
C20_Stage2Score ==
    /\ analysis.stage2.total_score = FiveScores(analysis.stage2)
    /\ \A d \in StoredRecords : d.stage2.total_score = FiveScores(d.stage2)
    /\ (out.op \in {"filled", "saved"} /\ doc.stage = 2) =>
          LET total  == FiveScores(doc.scores)
              result == analysis.stage2.result
          IN  /\ \A k \in score_items : analysis.stage2[k] = doc.scores[k]
              /\ analysis.stage2.total_score = total
              /\ total \in 0..10
              /\ (result = "excellent") <=> (total >= 8)
              /\ (result = "standard") <=> (5 <= total /\ total <= 7)
              /\ (result = "skip") <=> (total <= 4)
              /\ out.op = "saved" =>
                    /\ StoredRecords # {}
                    /\ \A d \in StoredRecords :
                          /\ d.stage2.total_score = total
                          /\ d.stage2.result = result

C20_Witness ==
    /\ out.op = "saved"
    /\ doc.stage = 2
    /\ FiveScores(doc.scores) = 8
    /\ analysis.stage2.result = "excellent"
    /\ analysis.current_stage = 3
    /\ \E d \in StoredRecords : d.stage2.total_score = 8

\* C21: stage3.result is "complete" iff all seven devil's-advocate answers
\* are non-empty and "incomplete" as soon as one of them is empty, whatever
\* the moat boxes, the other-moat text and the bias boxes hold; the record
\* the stage 3 save button writes carries the same result.
C21_Stage3Complete ==
    (out.op \in {"filled", "saved"} /\ doc.stage = 3) =>
       LET all_filled == \A k \in devil_items : doc.answers[k] # ""
           verdict    == IF all_filled THEN Complete ELSE Incomplete
       IN  /\ \A k \in devil_items : analysis.stage3[k] = doc.answers[k]
           /\ analysis.stage3.moat = doc.moat
           /\ analysis.stage3.moat_other = doc.moat_other
           /\ analysis.stage3.bias_flags = doc.bias_flags
           /\ analysis.stage3.result = verdict
           /\ out.op = "saved" =>
                 /\ StoredRecords # {}
                 /\ \A d \in StoredRecords :
                       /\ d.stage3.result = verdict
                       /\ d.current_stage = (IF all_filled THEN 4 ELSE 1)

C21_Witness ==
    /\ out.op = "saved"
    /\ doc.stage = 3
    /\ doc.answers["devil_q3_2"] = ""
    /\ \A k \in devil_items \ {"devil_q3_2"} : doc.answers[k] # ""
    /\ doc.moat["brand"]
    /\ doc.bias_flags["bias_certain"]
    /\ doc.moat_other = "x"
    /\ analysis.stage3.result = Incomplete
    /\ \E d \in StoredRecords : d.stage3.result = Incomplete /\ d.stage3.moat["brand"]

\* C22: cooling_ok is true iff the review date is at least one day after the
\* analysis-complete date (false when the dates are equal or the review is
\* earlier); stage4.result is "complete" iff cooling_ok holds and the three
\* prohibitions and the three to-do items are all ticked, "incomplete"
\* otherwise; the record the stage 4 save button writes carries both.
C22_CoolingOff ==
    (out.op \in {"filled", "saved"} /\ doc.stage = 4) =>
       LET waited  == doc.rev >= doc.comp + 1
           ticked  == /\ \A k \in prohibitions : doc.prohibitions[k]
                      /\ \A k \in todos : doc.todos[k]
           verdict == IF waited /\ ticked THEN Complete ELSE Incomplete
       IN  /\ analysis.stage4.analysis_complete_date = strftime(doc.comp)
           /\ analysis.stage4.review_date = strftime(doc.rev)
           /\ analysis.stage4.cooling_ok = waited
           /\ analysis.stage4.result = verdict
           /\ out.op = "saved" =>
                 /\ StoredRecords # {}
                 /\ \A d \in StoredRecords :
                       /\ d.stage4.cooling_ok = waited
                       /\ d.stage4.result = verdict

C22_Witness ==
    /\ out.op = "saved"
    /\ doc.stage = 4
    /\ doc.rev = doc.comp
    /\ \A k \in prohibitions : doc.prohibitions[k]
    /\ \A k \in todos : doc.todos[k]
    /\ \E d \in StoredRecords :
          /\ ~d.stage4.cooling_ok
          /\ d.stage4.result = Incomplete
          /\ d.stage4.review_date = d.stage4.analysis_complete_date

\* C23: no record written by the tool has stage5.decision = "invest"
\* together with stage5.conviction = "highest" (the level the page's own
\* table marks as investing prohibited).
C23_NoInvestAtHighest ==
    \A d \in StoredRecords :
        ~(/\ d.stage5.decision = "invest"
          /\ Get(d.stage5, "conviction", "normal") = "highest")

\* The files of the store that parse as a JSON object.
JsonObjects(files) ==
    {fp \in DOMAIN files : Loads(files, fp) /\ LoadDoc(files, fp).t = "dict"}

\* C24: for every store content list_analyses and export_all_to_csv return
\* one entry per file that parses as a JSON object and skip every other
\* file, leaving the files as they are; the fields a readable record lacks
\* are listed with their placeholders ("?", stage 1, "incomplete", "-").
C24_UnreadableSkipped ==
    /\ out.op = "listed" =>
          /\ Len(out.analyses) = Cardinality(JsonObjects(store))
          /\ {out.analyses[i].filepath : i \in 1..Len(out.analyses)} = JsonObjects(store)
          /\ \A i \in 1..Len(out.analyses) :
                LoadDoc(store, out.analyses[i].filepath) = DictNode(<<>>) =>
                   /\ out.analyses[i].ticker = <<"?">>
                   /\ out.analyses[i].company = <<"?">>
                   /\ out.analyses[i].date = <<"?">>
                   /\ out.analyses[i].current_stage = 1
                   /\ out.analyses[i].stage1_result = Incomplete
                   /\ out.analyses[i].stage2_score = "-"
                   /\ out.analyses[i].stage5_decision = Incomplete
    /\ out.op = "exported" => Len(out.rows) = Cardinality(JsonObjects(store))

\* The reply holds a value (not None) under key k.
Has(reply, k) == reply # Raises /\ Get(reply, k, None) # None

\* C25: a ticker whose quote fetch raises, or returns no current price or no
\* previous close, is dropped from the position table; every remaining
\* position has both prices as the provider gave them, its valuation is net
\* quantity x current price, and its change is (current - previous close) /
\* previous close.
C25_QuoteFailureDrops ==
    out.op = "valued" =>
       LET quoted == {t \in Tickers :
                        /\ NetQuantity(doc.df, t) > 0
                        /\ Has(doc.replies[t], "regularMarketPrice")
                        /\ Has(doc.replies[t], "previousClose")}
       IN  /\ DOMAIN out.table = quoted
           /\ \A t \in quoted :
                 LET price == doc.replies[t].regularMarketPrice
                     prev  == doc.replies[t].previousClose
                     row   == out.table[t]
                 IN  /\ row.price = price
                     /\ row.prev_close = prev
                     /\ row.valuation = RatMul(RatOf(NetQuantity(doc.df, t)), price)
                     /\ RatMul(row.change, prev) = RatSub(price, prev)

C25_Witness ==
    /\ out.op = "valued"
    /\ doc.replies["AAA"] = Raises
    /\ Has(doc.replies["BBB"], "regularMarketPrice")
    /\ NetQuantity(doc.df, "AAA") > 0
    /\ DOMAIN out.table = {"BBB"}
    /\ out.table["BBB"].valuation = RatOf(45)
    /\ out.table["BBB"].change = Rat(0 - 1, 10)

\* The current_stage a file of the store holds.
StoredStage(file) == TreeGet(file.content.v, "current_stage", Num(1)).v

\* C26: the current_stage stored in the file of a (ticker, date) pair never
\* decreases from one write of the file to the next, whatever the user does
\* in the session (edits, saves, reset, resume).
C26_StoredStageNeverDrops ==
    [][\A fp \in DOMAIN store \cap DOMAIN store' :
          (store[fp].content # NotJson /\ store'[fp].content # NotJson) =>
             StoredStage(store'[fp]) >= StoredStage(store[fp])]_vars

\* C27: a save of the session's record under a ticker and date other than
\* those of a record saved earlier writes the file of the new pair and leaves
\* the file of the earlier pair in place with its content, and list_analyses
\* lists both.
C27_SaveUnderNewPairKeepsOld ==
    [][clock' = clock + 1 =>
          \E new \in {FilePathOf(analysis')}, analyses \in {list_analyses(store')} :
             \E listed \in {{analyses[i].filepath : i \in 1..Len(analyses)}} :
                /\ new \in DOMAIN store'
                /\ store'[new] = File(ToTree(analysis'), clock')
                /\ new \in listed
                /\ \A p \in DOMAIN live \ {PairOf(analysis')} :
                      \E old \in {FilePathOf(live[p])} :
                         /\ old # new
                         /\ old \in DOMAIN store \cap DOMAIN store'
                         /\ store'[old] = store[old]
                         /\ store'[old].content = ToTree(live[p])
                         /\ old \in listed]_vars

C27_Witness ==
    /\ lastOp.op = "save5"
    /\ clock = 2
    /\ Cardinality(DOMAIN live) = 2
    /\ \E p, q \in DOMAIN live :
          /\ p[1] = q[1]
          /\ p[2] # q[2]
          /\ PairOf(analysis) = q
          /\ store[FilePathOf(live[p])].mtime = 1
          /\ store[FilePathOf(live[q])].mtime = 2
    /\ Len(list_analyses(store)) = 2

\* C28: for every hidden_tickers set the risk summary and the per-ticker
\* metrics table are what they are with no ticker hidden: the table has a
\* row for every valued position, and each share is the position's valuation
\* over the valuation of all positions, hidden ones included.
C28_HidingLeavesRiskAndMetrics ==
    out.op = "display" =>
       \E table \in {valued(position_of(doc.df), doc.info)} :
          \E everything \in {SumValuation(table, DOMAIN table)},
             unhidden \in {Display(doc, {}, show_yen)} :
             /\ out.risk_summary = unhidden.risk_summary
             /\ out.metrics = unhidden.metrics
             /\ DOMAIN out.metrics = DOMAIN table
             /\ \A t \in DOMAIN table :
                   /\ out.metrics[t].valuation = table[t].valuation
                   /\ RatMul(out.metrics[t].share, everything) = table[t].valuation
             /\ DOMAIN out.pie_data = (DOMAIN table \ hidden_tickers) \cup {"cash"}

C28_Witness ==
    /\ out.op = "display"
    /\ hidden_tickers = {"AAA"}
    /\ DOMAIN out.pie_data = {"BBB", "cash"}
    /\ out.holdings["AAA"].label = "show"
    /\ out.metrics["AAA"].share = Rat(22, 67)
    /\ out.metrics["BBB"].share = Rat(45, 67)
    /\ out.risk_summary.portfolio_beta = Rat(312, 335)
    /\ RatLess(out.risk_summary.max_drawdown, RatOf(0))

====
